---- MODULE Spec2Model ----
(***************************************************************************)
(* Prayer-times Telegram bot (shf13/telebot).                              *)
(*                                                                         *)
(* The model follows src/thebot/bot.py (command and button handlers, the   *)
(* per-user daily job, process start-up) on top of the preference store of *)
(* "src/zarchived abotaya/storage.py" (the Storage class bot.py imports).  *)
(* src/improvments/iii.py has the same _schedule_user, settime, stop,      *)
(* PRESET/STOP branches and start-up loop, wrapped in try/except.          *)
(*                                                                         *)
(* A text is a sequence of one-character tokens; "LF" is a newline and     *)
(* "U+0663" and "U+0668" are the ARABIC-INDIC DIGITs THREE and EIGHT,      *)
(* decimal digits that are not among 0-9.                                  *)
(***************************************************************************)
EXTENDS Integers, Sequences, FiniteSets, TLC

VARIABLES
    user_prefs,      \* the rows of table user_prefs (storage.py:31-37)
    jobs,            \* app.job_queue: job name -> the jobs of that name, oldest first
    daily,           \* per user: the running send_daily callback of the user's job
    startup_errors,  \* users whose _schedule_user raised in the last start-up loop
    last,            \* the operation that produced this state, and its reply
    inp,             \* component checks: the arguments, the feed file, the clock
    out              \* component checks: the results and the component's own state

vars == <<user_prefs, jobs, daily, startup_errors, last, inp, out>>

(***************************************************************************)
(* Bounds                                                                  *)
(***************************************************************************)
NumUsers == 2
NumChats == 2
NumRecipients == 3  \* the most rows of user_prefs during a broadcast or a Friday run
MaxLen == 5
Tick == 100      \* seconds between two observations of time.time()
MaxClock == 900  \* the last value of time.time() observed
MaxKeys == 3     \* the most entries of a prayers mapping
MaxFeedback == 2 \* the most feedback records stored

Users == 1..NumUsers
Chats == 1..NumChats

(***************************************************************************)
(* Texts                                                                   *)
(***************************************************************************)
AsciiDigits == {"0", "1", "2", "3", "4", "5", "6", "7", "8", "9"}

\* Characters of Unicode category Nd other than 0-9; a str pattern's \d and
\* int() accept them.
OtherDigits == {"U+0663", "U+0668"}

Digits == AsciiDigits \cup OtherDigits

Whitespace == {" ", "LF"}

DigitVal(c) ==
    CASE c = "0" -> 0 [] c = "1" -> 1 [] c = "2" -> 2 [] c = "3" -> 3
      [] c = "4" -> 4 [] c = "5" -> 5 [] c = "6" -> 6 [] c = "7" -> 7
      [] c = "8" -> 8 [] c = "9" -> 9 [] c = "U+0663" -> 3 [] c = "U+0668" -> 8

\* int(two-character group)
IntOf(s) == 10 * DigitVal(s[1]) + DigitVal(s[2])

RECURSIVE lstrip(_)
lstrip(s) ==
    IF s # <<>> /\ Head(s) \in Whitespace THEN lstrip(Tail(s)) ELSE s

RECURSIVE rstrip(_)
rstrip(s) ==
    IF s # <<>> /\ s[Len(s)] \in Whitespace
    THEN rstrip(SubSeq(s, 1, Len(s) - 1))
    ELSE s

\* str.strip()
strip(s) == rstrip(lstrip(s))

\* TIME_RE.match(s): ^([01]\d|2[0-3]):([0-5]\d)$ ; $ also matches just before
\* a newline that ends the text.
TIME_RE(s) ==
    /\ Len(s) = 5 \/ (Len(s) = 6 /\ s[6] = "LF")
    /\ \/ s[1] \in {"0", "1"} /\ s[2] \in Digits
       \/ s[1] = "2" /\ s[2] \in {"0", "1", "2", "3"}
    /\ s[3] = ":"
    /\ s[4] \in {"0", "1", "2", "3", "4", "5"}
    /\ s[5] \in Digits

\* _parse_hhmm with the pattern ^\d\d:\d\d$, which checks no range
parse_hhmm_any_digits(s) ==
    LET t == strip(s) IN
    IF ~(Len(t) = 5 /\ t[1] \in Digits /\ t[2] \in Digits /\ t[3] = ":"
            /\ t[4] \in Digits /\ t[5] \in Digits)
    THEN [ok |-> FALSE, hour |-> 0, minute |-> 0]
    ELSE [ok |-> TRUE, hour |-> IntOf(SubSeq(t, 1, 2)), minute |-> IntOf(SubSeq(t, 4, 5))]

\* _parse_hhmm(s, lang): ok = FALSE stands for the ValueError.
parse_hhmm(s) ==
    LET t == strip(s) IN
    IF ~TIME_RE(t)
    THEN [ok |-> FALSE, hour |-> 0, minute |-> 0]
    ELSE [ok |-> TRUE, hour |-> IntOf(SubSeq(t, 1, 2)), minute |-> IntOf(SubSeq(t, 4, 5))]

(***************************************************************************)
(* User preference store: "src/zarchived abotaya/storage.py"               *)
(***************************************************************************)
\* SQL NULL / Python None in a TEXT column
NULL == <<"NULL">>

en == <<"e", "n">>
ar == <<"a", "r">>
ru == <<"r", "u">>
SUPPORTED_LANGS == {en, ar, ru}

t0815 == <<"0", "8", ":", "1", "5">>
t2100 == <<"2", "1", ":", "0", "0">>

\* the rows of t whose primary key is uid
RowsOf(t, uid) == {r \in t : r.user_id = uid}

HasRow(t, uid) == RowsOf(t, uid) # {}

\* Storage.get_user: fetchone() of SELECT ... WHERE user_id=? (guarded by HasRow,
\* which stands for the "if not row: return None")
get_user(t, uid) == CHOOSE r \in t : r.user_id = uid

\* The row INSERT ... ON CONFLICT(user_id) DO UPDATE rewrites, others untouched
Update(t, uid, new(_)) == {IF r.user_id = uid THEN new(r) ELSE r : r \in t}

\* INSERT OR REPLACE in place of ON CONFLICT DO UPDATE: the row is rebuilt
\* from the inserted columns and the column defaults
upsert_user_replace(t, uid, cid) ==
    (t \ RowsOf(t, uid)) \cup
        {[user_id |-> uid, chat_id |-> cid, time_hhmm |-> NULL,
          enabled |-> TRUE, language |-> NULL]}

\* Storage.upsert_user
upsert_user(t, uid, cid) ==
    IF HasRow(t, uid)
    THEN LET new(r) == [r EXCEPT !.chat_id = cid] IN Update(t, uid, new)
    ELSE t \cup {[user_id |-> uid, chat_id |-> cid, time_hhmm |-> NULL,
                  enabled |-> TRUE, language |-> NULL]}

\* set_language whose DO UPDATE clause also says "enabled=1"
set_language_forces_enabled(t, uid, cid, lang) ==
    IF HasRow(t, uid)
    THEN LET new(r) == [r EXCEPT !.chat_id = cid, !.language = lang,
                                 !.enabled = TRUE]
         IN Update(t, uid, new)
    ELSE t \cup {[user_id |-> uid, chat_id |-> cid, time_hhmm |-> NULL,
                  enabled |-> TRUE, language |-> lang]}

\* Storage.set_language
set_language(t, uid, cid, lang) ==
    IF HasRow(t, uid)
    THEN LET new(r) == [r EXCEPT !.chat_id = cid, !.language = lang]
         IN Update(t, uid, new)
    ELSE t \cup {[user_id |-> uid, chat_id |-> cid, time_hhmm |-> NULL,
                  enabled |-> TRUE, language |-> lang]}

\* set_time whose DO UPDATE clause lacks "enabled=1"
set_time_keeps_enabled(t, uid, cid, hhmm) ==
    IF HasRow(t, uid)
    THEN LET new(r) == [r EXCEPT !.chat_id = cid, !.time_hhmm = hhmm]
         IN Update(t, uid, new)
    ELSE t \cup {[user_id |-> uid, chat_id |-> cid, time_hhmm |-> hhmm,
                  enabled |-> TRUE, language |-> NULL]}

\* Storage.set_time
set_time(t, uid, cid, hhmm) ==
    IF HasRow(t, uid)
    THEN LET new(r) == [r EXCEPT !.chat_id = cid, !.time_hhmm = hhmm,
                                 !.enabled = TRUE]
         IN Update(t, uid, new)
    ELSE t \cup {[user_id |-> uid, chat_id |-> cid, time_hhmm |-> hhmm,
                  enabled |-> TRUE, language |-> NULL]}

\* Storage.set_enabled: UPDATE ... WHERE user_id=? (no row, no effect)
set_enabled(t, uid, enabled) ==
    LET new(r) == [r EXCEPT !.enabled = enabled] IN Update(t, uid, new)

\* Storage.list_enabled_users: SELECT ... WHERE enabled=1, in rowid
\* (= user_id) order, as a sequence of rows
RECURSIVE RowsFrom(_, _)
RowsFrom(t, uid) ==
    IF \A r \in t : r.user_id < uid THEN <<>>
    ELSE (IF HasRow(t, uid) /\ get_user(t, uid).enabled
          THEN <<get_user(t, uid)>> ELSE <<>>) \o RowsFrom(t, uid + 1)

list_enabled_users(t) == RowsFrom(t, 1)

(***************************************************************************)
(* Job queue and scheduling: src/thebot/bot.py                             *)
(***************************************************************************)
\* _job_name: f"daily_{user_id}"
job_name(uid) == <<"daily_", uid>>

JobNames == {job_name(u) : u \in Users}

\* for job in job_queue.get_jobs_by_name(name): job.schedule_removal()
schedule_removal(js, name) == [js EXCEPT ![name] = <<>>]

\* job_queue.run_daily(callback=send_daily, time=t, name=name, data={"user_id": uid})
run_daily(js, name, hour, minute, uid) ==
    [js EXCEPT ![name] = Append(@, [hour |-> hour, minute |-> minute, user_id |-> uid])]

\* "if not x" for a TEXT column
Falsy(x) == x = NULL \/ x = <<>>

\* _schedule_user without the get_jobs_by_name / schedule_removal loop
schedule_user_keeps_old(js, t, uid, fails) ==
    IF ~HasRow(t, uid) \/ ~get_user(t, uid).enabled
    THEN [jobs |-> js, reply |-> "disabled", raised |-> FALSE]
    ELSE IF Falsy(get_user(t, uid).time_hhmm)
    THEN [jobs |-> js, reply |-> "no_delivery_time", raised |-> FALSE]
    ELSE LET p == parse_hhmm(get_user(t, uid).time_hhmm) IN
         IF ~p.ok \/ fails
         THEN [jobs |-> js, reply |-> "(raised)", raised |-> TRUE]
         ELSE [jobs |-> run_daily(js, job_name(uid), p.hour, p.minute, uid),
               reply |-> "ok_daily", raised |-> FALSE]

\* _schedule_user(app, storage, user_id, lang).  fails: job_queue.run_daily
\* raises.  raised = TRUE: the call ends in an exception (ValueError of
\* _parse_hhmm, or the one of run_daily), after the old jobs were removed.
schedule_user(js, t, uid, fails) ==
    IF ~HasRow(t, uid) \/ ~get_user(t, uid).enabled
    THEN [jobs |-> js, reply |-> "disabled", raised |-> FALSE]
    ELSE IF Falsy(get_user(t, uid).time_hhmm)
    THEN [jobs |-> js, reply |-> "no_delivery_time", raised |-> FALSE]
    ELSE LET js1 == schedule_removal(js, job_name(uid))
             p == parse_hhmm(get_user(t, uid).time_hhmm)
         IN  IF ~p.ok \/ fails
             THEN [jobs |-> js1, reply |-> "(raised)", raised |-> TRUE]
             ELSE [jobs |-> run_daily(js1, job_name(uid), p.hour, p.minute, uid),
                   reply |-> "ok_daily", raised |-> FALSE]

\* _lang_or_prompt(prefs): the language, or NULL for None
lang_or_prompt(t, uid) ==
    IF HasRow(t, uid) /\ get_user(t, uid).language \in SUPPORTED_LANGS
    THEN get_user(t, uid).language
    ELSE NULL

(***************************************************************************)
(* Handlers: src/thebot/bot.py.  Each gives the store, the job queue and   *)
(* the kind of reply after the handler ran.                                *)
(***************************************************************************)
Result(t, js, reply) == [prefs |-> t, jobs |-> js, reply |-> reply]

\* start: "today" is the message of _load_today_or_friendly and
\* _format_prayer_message, with or without data
start(t, js, uid, cid) ==
    LET t1 == upsert_user(t, uid, cid) IN
    IF lang_or_prompt(t1, uid) = NULL
    THEN Result(t1, js, "choose_lang")
    ELSE Result(t1, js, "today")

\* help_cmd
help_cmd(t, js, uid) ==
    IF ~HasRow(t, uid) \/ Falsy(get_user(t, uid).language)
    THEN Result(t, js, "choose_lang")
    ELSE Result(t, js, "help")

\* language_cmd
language_cmd(t, js, uid, cid) ==
    Result(upsert_user(t, uid, cid), js, "choose_lang")

\* settime that adds the new job without removing the old one
settime_keeps_old_job(t, js, uid, cid, args, fails) ==
    IF lang_or_prompt(t, uid) = NULL THEN Result(t, js, "choose_lang")
    ELSE IF args = <<>> THEN Result(t, js, "settime_usage")
    ELSE LET time_hhmm == strip(args[1]) IN
         IF ~parse_hhmm(time_hhmm).ok THEN Result(t, js, "invalid_time")
         ELSE LET t1 == set_time(t, uid, cid, time_hhmm)
                  r == schedule_user_keeps_old(js, t1, uid, fails)
              IN  Result(t1, r.jobs, r.reply)

\* settime.  args: context.args, <<>> or one text
settime(t, js, uid, cid, args, fails) ==
    IF lang_or_prompt(t, uid) = NULL THEN Result(t, js, "choose_lang")
    ELSE IF args = <<>> THEN Result(t, js, "settime_usage")
    ELSE LET time_hhmm == strip(args[1]) IN
         IF ~parse_hhmm(time_hhmm).ok THEN Result(t, js, "invalid_time")
         ELSE LET t1 == set_time(t, uid, cid, time_hhmm)
                  r == schedule_user(js, t1, uid, fails)
              IN  Result(t1, r.jobs, r.reply)

\* time_cmd
time_cmd(t, js, uid) ==
    IF lang_or_prompt(t, uid) = NULL THEN Result(t, js, "choose_lang")
    ELSE IF ~HasRow(t, uid) THEN Result(t, js, "no_settings")
    ELSE Result(t, js, "settings")

\* stop that leaves the user's jobs in the queue
stop_keeps_job(t, js, uid) ==
    Result(set_enabled(t, uid, FALSE), js, "disabled")

\* stop
stop(t, js, uid) ==
    Result(set_enabled(t, uid, FALSE), schedule_removal(js, job_name(uid)), "disabled")

\* now
now(t, js, uid) ==
    IF lang_or_prompt(t, uid) = NULL THEN Result(t, js, "choose_lang")
    ELSE Result(t, js, "today")

\* on_button whose LANG: branch stores the code as it came
on_button_stores_any_code(t, js, uid, cid, data, fails) ==
    IF data.tag = "LANGMENU" THEN Result(t, js, "choose_lang")
    ELSE IF data.tag = "LANG:" THEN
        LET code == strip(data.arg)
            lang == code
        IN  Result(set_language(t, uid, cid, lang), js, "today")
    ELSE IF lang_or_prompt(t, uid) = NULL THEN Result(t, js, "choose_lang")
    ELSE IF data.tag = "BACK" THEN Result(t, js, "menu_prompt")
    ELSE IF data.tag = "SETTIME" THEN Result(t, js, "settime_pick")
    ELSE IF data.tag = "TIME" THEN Result(t, js, "settings")
    ELSE IF data.tag = "STOP" THEN
        Result(set_enabled(t, uid, FALSE), schedule_removal(js, job_name(uid)), "disabled")
    ELSE IF data.tag = "NOW" THEN Result(t, js, "today")
    ELSE IF data.tag = "PRESET:" THEN
        LET time_hhmm == strip(data.arg) IN
        IF ~parse_hhmm(time_hhmm).ok THEN Result(t, js, "invalid_preset")
        ELSE LET t1 == set_time(upsert_user(t, uid, cid), uid, cid, time_hhmm)
                 r == schedule_user(js, t1, uid, fails)
             IN  Result(t1, r.jobs, r.reply)
    ELSE Result(t, js, "(none)")

\* on_button.  data: the callback token, tag and the text after its colon
on_button(t, js, uid, cid, data, fails) ==
    IF data.tag = "LANGMENU" THEN Result(t, js, "choose_lang")
    ELSE IF data.tag = "LANG:" THEN
        LET code == strip(data.arg)
            lang == IF code \notin SUPPORTED_LANGS THEN en ELSE code
        IN  Result(set_language(t, uid, cid, lang), js, "today")
    ELSE IF lang_or_prompt(t, uid) = NULL THEN Result(t, js, "choose_lang")
    ELSE IF data.tag = "BACK" THEN Result(t, js, "menu_prompt")
    ELSE IF data.tag = "SETTIME" THEN Result(t, js, "settime_pick")
    ELSE IF data.tag = "TIME" THEN Result(t, js, "settings")
    ELSE IF data.tag = "STOP" THEN
        Result(set_enabled(t, uid, FALSE), schedule_removal(js, job_name(uid)), "disabled")
    ELSE IF data.tag = "NOW" THEN Result(t, js, "today")
    ELSE IF data.tag = "PRESET:" THEN
        LET time_hhmm == strip(data.arg) IN
        IF ~parse_hhmm(time_hhmm).ok THEN Result(t, js, "invalid_preset")
        ELSE LET t1 == set_time(upsert_user(t, uid, cid), uid, cid, time_hhmm)
                 r == schedule_user(js, t1, uid, fails)
             IN  Result(t1, r.jobs, r.reply)
    ELSE Result(t, js, "(none)")

(***************************************************************************)
(* The daily job callback and process start-up: src/thebot/bot.py          *)
(***************************************************************************)
\* send_daily that does not look at prefs.enabled
send_daily_ignores_enabled(t, uid) == HasRow(t, uid)

\* send_daily up to its first await: TRUE when it goes on to send_message
\* (the day's message or the friendly one), FALSE when it returns
send_daily(t, uid) == HasRow(t, uid) /\ get_user(t, uid).enabled

NoJobs == [n \in JobNames |-> <<>>]

\* the start-up loop without its try/except: the first exception ends it
RECURSIVE restore_jobs_no_except(_, _, _, _)
restore_jobs_no_except(rows, js, t, faulty) ==
    IF rows = <<>> THEN [jobs |-> js, errors |-> {}]
    ELSE LET prefs == Head(rows) IN
         IF Falsy(prefs.time_hhmm)
         THEN restore_jobs_no_except(Tail(rows), js, t, faulty)
         ELSE LET r == schedule_user(js, t, prefs.user_id, prefs.user_id \in faulty) IN
              IF r.raised THEN [jobs |-> r.jobs, errors |-> {prefs.user_id}]
              ELSE restore_jobs_no_except(Tail(rows), r.jobs, t, faulty)

\* main, "Restore Jobs": for prefs in storage.list_enabled_users(): if
\* prefs.time_hhmm: try _schedule_user(...) except Exception: pass.
\* faulty: the users for whom run_daily raises.  errors: the users whose
\* _schedule_user raised.
RECURSIVE restore_jobs(_, _, _, _)
restore_jobs(rows, js, t, faulty) ==
    IF rows = <<>> THEN [jobs |-> js, errors |-> {}]
    ELSE LET prefs == Head(rows) IN
         IF Falsy(prefs.time_hhmm)
         THEN restore_jobs(Tail(rows), js, t, faulty)
         ELSE LET r == schedule_user(js, t, prefs.user_id, prefs.user_id \in faulty)
                  rest == restore_jobs(Tail(rows), r.jobs, t, faulty)
              IN  [jobs |-> rest.jobs,
                   errors |-> rest.errors \cup (IF r.raised THEN {prefs.user_id} ELSE {})]

(***************************************************************************)
(* Inputs                                                                  *)
(***************************************************************************)
\* texts sent as the time of /settime and of PRESET:<value>
TimeArgs ==
    { t0815, t2100,
      <<" ", "2", "1", ":", "0", "0">>,
      <<"8", ":", "1", "5">>, <<"2", "4", ":", "0", "0">>,
      <<"0", "U+0668", ":", "1", "5">> }

\* context.args: no argument, or a first argument, which holds no whitespace
ArgsOf(T) == {<<>>} \cup {<<s>> : s \in {x \in T : strip(x) = x}}

LangArgs == {en, <<"x", "x">>}

Tokens == {"LANGMENU", "BACK", "SETTIME", "TIME", "STOP", "NOW"}

\* callback tokens: tag, and the text after the colon of LANG: and PRESET:
ButtonData(K, L, T) ==
    {[tag |-> x, arg |-> <<>>] : x \in K}
    \cup {[tag |-> "LANG:", arg |-> l] : l \in L}
    \cup {[tag |-> "PRESET:", arg |-> s] : s \in T}

(***************************************************************************)
(* The bot as a state machine                                              *)
(***************************************************************************)
Idle == [pc |-> "idle", stopped |-> FALSE, sent |-> 0]

\* First start on an empty database: no rows, no jobs.
Init ==
    /\ user_prefs = {}
    /\ jobs = NoJobs
    /\ daily = [u \in Users |-> Idle]
    /\ startup_errors = {}
    /\ last = [user |-> 0, reply |-> "(started)"]
    /\ inp = <<>>
    /\ out = <<>>

\* Bookkeeping for a fired callback that has not read the preferences yet:
\* stopped tells whether the user's latest write of the enabled flag since the
\* job fired was set_enabled(False).
Noted(uid, r) ==
    IF daily[uid].pc # "fired" \/ r.prefs = user_prefs THEN daily
    ELSE [daily EXCEPT ![uid].stopped = ~get_user(r.prefs, uid).enabled]

\* A handler ran for user uid: last is the reply it sent.
Apply(r, uid) ==
    /\ user_prefs' = r.prefs
    /\ jobs' = r.jobs
    /\ daily' = Noted(uid, r)
    /\ last' = [user |-> uid, reply |-> r.reply]
    /\ UNCHANGED <<startup_errors, inp, out>>

Start(u, C) == \E c \in C : Apply(start(user_prefs, jobs, u, c), u)

Help(u) == Apply(help_cmd(user_prefs, jobs, u), u)

Language(u, C) == \E c \in C : Apply(language_cmd(user_prefs, jobs, u, c), u)

SetTime(u, C, A) ==
    \E c \in C, a \in A, f \in BOOLEAN :
        Apply(settime(user_prefs, jobs, u, c, a, f), u)

Time(u) == Apply(time_cmd(user_prefs, jobs, u), u)

Stop(u) == Apply(stop(user_prefs, jobs, u), u)

Now(u) == Apply(now(user_prefs, jobs, u), u)

Button(u, C, D) ==
    \E c \in C, d \in D, f \in BOOLEAN :
        Apply(on_button(user_prefs, jobs, u, c, d, f), u)

\* The scheduler starts the send_daily callback of the user's job.
Fire(u) ==
    /\ jobs[job_name(u)] # <<>>
    /\ daily[u].pc = "idle"
    /\ daily' = [daily EXCEPT ![u] = [pc |-> "fired", stopped |-> FALSE, sent |-> 0]]
    /\ last' = [user |-> u, reply |-> "(job fired)"]
    /\ UNCHANGED <<user_prefs, jobs, startup_errors, inp, out>>

\* send_daily reads the preferences and returns, or goes on to send.
Read(u) ==
    /\ daily[u].pc = "fired"
    /\ daily' = [daily EXCEPT ![u].pc =
                    IF send_daily(user_prefs, u) THEN "sending" ELSE "idle"]
    /\ last' = [user |-> u, reply |-> "(job read)"]
    /\ UNCHANGED <<user_prefs, jobs, startup_errors, inp, out>>

\* The awaited send_message ends: delivered, or an exception.
Deliver(u) ==
    /\ daily[u].pc = "sending"
    /\ \E ok \in BOOLEAN :
        /\ daily' = [daily EXCEPT ![u].pc = "idle",
                                  ![u].sent = @ + (IF ok THEN 1 ELSE 0)]
        /\ last' = [user |-> u, reply |-> IF ok THEN "daily" ELSE "(send raised)"]
    /\ UNCHANGED <<user_prefs, jobs, startup_errors, inp, out>>

\* The process is restarted: the job queue and the running callbacks are
\* gone, the database stays, main() restores the jobs.
Main ==
    \E faulty \in SUBSET Users :
        LET r == restore_jobs(list_enabled_users(user_prefs), NoJobs, user_prefs, faulty) IN
        /\ jobs' = r.jobs
        /\ startup_errors' = r.errors
        /\ daily' = [u \in Users |-> Idle]
        /\ last' = [user |-> 0, reply |-> "(started)"]
        /\ UNCHANGED <<user_prefs, inp, out>>

\* Commands, buttons and restarts
Next ==
    \/ \E u \in Users : Start(u, Chats)
    \/ \E u \in Users : Help(u)
    \/ \E u \in Users : Language(u, Chats)
    \/ \E u \in Users : SetTime(u, Chats, ArgsOf(TimeArgs))
    \/ \E u \in Users : Time(u)
    \/ \E u \in Users : Stop(u)
    \/ \E u \in Users : Now(u)
    \/ \E u \in Users : Button(u, Chats, ButtonData(Tokens, LangArgs, TimeArgs))
    \/ Main

Spec == Init /\ [][Next]_vars

\* One chat and one delivery time; the daily job's callback runs interleaved
\* with the handlers.
NextDaily ==
    \/ \E u \in Users : SetTime(u, {1}, ArgsOf({t0815}))
    \/ \E u \in Users : Stop(u)
    \/ \E u \in Users : Button(u, {1}, ButtonData({"STOP"}, {en}, {t0815}))
    \/ \E u \in Users : Fire(u)
    \/ \E u \in Users : Read(u)
    \/ \E u \in Users : Deliver(u)
    \/ Main

SpecDaily == Init /\ [][NextDaily]_vars

(***************************************************************************)
(* Properties                                                              *)
(***************************************************************************)
JobsOf(u) == jobs[job_name(u)]

Enabled(u) == HasRow(user_prefs, u) /\ get_user(user_prefs, u).enabled

\* the job _schedule_user makes of a stored time
JobAt(u, hhmm) ==
    [hour |-> parse_hhmm(hhmm).hour, minute |-> parse_hhmm(hhmm).minute, user_id |-> u]

\* C1: the job queue never holds more than one job named daily_{user_id} for
\* any user, whatever /settime, PRESET, /stop, STOP and restarts came before.
C1_AtMostOneJobPerUser == \A u \in Users : Len(JobsOf(u)) <= 1

\* C1 witness: a user whose delivery time was just set to 21:00 holds exactly
\* the one job made for that time.
C1_Witness ==
    \E u \in Users :
        /\ last = [user |-> u, reply |-> "ok_daily"]
        /\ JobsOf(u) = <<JobAt(u, t2100)>>

\* the state /stop leaves a user in
Stopped(u) == HasRow(user_prefs, u) /\ ~Enabled(u) /\ JobsOf(u) = <<>>

\* this step stored a delivery time for u (a /settime or PRESET that passed
\* the validation)
TimeStored(u) == last'.user = u /\ last'.reply \in {"ok_daily", "(raised)"}

\* C2: after /stop or the STOP branch ran for a user with a stored record the
\* user is disabled and has no daily job, and stays so through every step
\* that is not a time-setting action of that user.
C2_StopUnschedules ==
    /\ [](\A u \in Users :
            (last = [user |-> u, reply |-> "disabled"] /\ HasRow(user_prefs, u))
                => Stopped(u))
    /\ [][\A u \in Users : (Stopped(u) /\ ~TimeStored(u)) => Stopped(u)']_vars

\* C2 witness: a user who had a delivery time has just been stopped.
C2_Witness ==
    \E u \in Users :
        /\ last = [user |-> u, reply |-> "disabled"]
        /\ HasRow(user_prefs, u)
        /\ get_user(user_prefs, u).time_hhmm = t0815
        /\ Stopped(u)

\* users main() tries to schedule
Eligible(u) == Enabled(u) /\ ~Falsy(get_user(user_prefs, u).time_hhmm)

\* C3: right after start-up every enabled user with a time whose scheduling
\* did not raise has exactly one job, at the stored time; a user that is
\* disabled, has no time, or whose scheduling raised has none.
C3_StartupRestoresJobs ==
    last.reply = "(started)" =>
        \A u \in Users :
            IF Eligible(u) /\ u \notin startup_errors
            THEN JobsOf(u) = <<JobAt(u, get_user(user_prefs, u).time_hhmm)>>
            ELSE JobsOf(u) = <<>>

\* C3 witness: scheduling raised for the first user of the loop and a later
\* user was scheduled all the same, next to a disabled or timeless user.
C3_Witness ==
    /\ last.reply = "(started)"
    /\ startup_errors = {1}
    /\ Eligible(2) /\ Len(JobsOf(2)) = 1

\* C4: a firing of the daily job whose preference read comes after the
\* user's set_enabled(False) (with no time set again in between) sends no
\* message; any firing sends at most one message; and a /stop or STOP that
\* arrives once the send is under way leaves that send running.
C4_StopVersusDailyJob ==
    /\ [](\A u \in Users :
            /\ daily[u].sent <= 1
            /\ (daily[u].stopped /\ daily[u].pc # "fired")
                    => (daily[u].pc = "idle" /\ daily[u].sent = 0))
    /\ [][\A u \in Users :
            (last'.reply = "disabled" /\ daily[u].pc = "sending")
                => daily'[u] = daily[u]]_vars

\* C4 witness: user 1 stopped before the read and that firing ended without
\* a message; user 2 stopped after the read and that firing's send is still
\* under way.
C4_Witness ==
    /\ daily[1] = [pc |-> "idle", stopped |-> TRUE, sent |-> 0]
    /\ daily[2] = [pc |-> "sending", stopped |-> FALSE, sent |-> 0]
    /\ Stopped(2)

\* what a user has chosen: delivery time, enabled flag, language (a user with
\* no row has the column defaults)
Prefs(t, u) ==
    IF HasRow(t, u)
    THEN [time_hhmm |-> get_user(t, u).time_hhmm, enabled |-> get_user(t, u).enabled,
          language |-> get_user(t, u).language]
    ELSE [time_hhmm |-> NULL, enabled |-> TRUE, language |-> NULL]

\* a command or button of u other than /language, LANGMENU and LANG:<code>
OtherCommand(u) ==
    \/ Start(u, Chats)
    \/ Help(u)
    \/ SetTime(u, Chats, ArgsOf(TimeArgs))
    \/ Time(u)
    \/ Stop(u)
    \/ Now(u)
    \/ Button(u, Chats, ButtonData(Tokens \ {"LANGMENU"}, {}, TimeArgs))

\* C5: for a user with no language on file every command and button other
\* than language selection only sends the language prompt: no user's time,
\* enabled flag or language changes and no job is added or removed.
C5_NoLanguageOnlyPrompts ==
    [][\A u \in Users :
        (lang_or_prompt(user_prefs, u) = NULL /\ OtherCommand(u))
            => /\ last'.reply = "choose_lang"
               /\ \A v \in Users : Prefs(user_prefs', v) = Prefs(user_prefs, v)
               /\ jobs' = jobs]_vars

\* a text of the form HH:MM written with the digits 0-9, with an hour of
\* 00-23 and a minute of 00-59
IsHHMM(s) ==
    /\ Len(s) = 5
    /\ s[3] = ":"
    /\ {s[1], s[2], s[4], s[5]} \subseteq AsciiDigits
    /\ IntOf(<<s[1], s[2]>>) \in 0..23
    /\ IntOf(<<s[4], s[5]>>) \in 0..59

\* the time arguments that are not HH:MM once trimmed
BadTimes == {x \in TimeArgs : ~IsHHMM(strip(x))}

\* C6: in every reachable state, a /settime or PRESET whose time argument is
\* not HH:MM leaves the rows of user_prefs and the job queue exactly as they
\* are and answers with the error text (or, for a user with no language, the
\* language prompt).
C6_InvalidTimeChangesNothing ==
    \A u \in Users, c \in Chats, x \in BadTimes, f \in BOOLEAN :
        LET viaCommand == settime(user_prefs, jobs, u, c, <<x>>, f)
            viaButton == on_button(user_prefs, jobs, u, c, [tag |-> "PRESET:", arg |-> x], f)
        IN  /\ viaCommand.prefs = user_prefs /\ viaCommand.jobs = jobs
            /\ viaCommand.reply \in {"invalid_time", "choose_lang"}
            /\ viaButton.prefs = user_prefs /\ viaButton.jobs = jobs
            /\ viaButton.reply \in {"invalid_preset", "choose_lang"}

\* C7: every stored time_hhmm is NULL or matches TIME_RE.
C7_StoredTimeMatches ==
    \A r \in user_prefs : r.time_hhmm = NULL \/ TIME_RE(r.time_hhmm)

\* C7 witness: a delivery time has just been stored.
C7_Witness ==
    \E u \in Users :
        /\ last = [user |-> u, reply |-> "ok_daily"]
        /\ get_user(user_prefs, u).time_hhmm \in {t0815, t2100}

(***************************************************************************)
(* _parse_hhmm as a function of its argument                               *)
(***************************************************************************)
ParseAlphabet == {"1", "2", "3", "4", "6", ":", "U+0663"}

\* every text of up to MaxLen characters of ParseAlphabet
ShortTexts == UNION {[1..n -> ParseAlphabet] : n \in 0..MaxLen}

Examples ==
    { t0815, <<"0", "0", ":", "0", "0">>, <<"2", "3", ":", "5", "9">>,
      <<"8", ":", "1", "5">>, <<"2", "4", ":", "0", "0">>,
      <<"0", "8", ":", "6", "0">>, <<"a", "b", "c">>,
      <<"0", "U+0668", ":", "1", "5">>, <<"0", "8", ":", "1", "U+0668">>,
      <<"U+0668", "8", ":", "1", "5">>, <<"0", "8", ":", "U+0663", "5">>,
      <<"0", "8", ":", "1", "5", "0">>, <<"0", "8", " ", ":", "1", "5">> }

Pads == {<<>>, <<" ">>, <<"LF">>, <<"LF", " ">>}

ParseInputs == ShortTexts \cup {p \o e \o q : p \in Pads, e \in Examples, q \in Pads}

ParseInit ==
    /\ inp \in ParseInputs
    /\ out = [done |-> FALSE]
    /\ user_prefs = {}
    /\ jobs = NoJobs
    /\ daily = [u \in Users |-> Idle]
    /\ startup_errors = {}
    /\ last = [user |-> 0, reply |-> "(none)"]

ParseStep ==
    /\ ~out.done
    /\ out' = [done |-> TRUE, res |-> parse_hhmm(inp)]
    /\ UNCHANGED <<user_prefs, jobs, daily, startup_errors, last, inp>>

SpecParse == ParseInit /\ [][ParseStep]_vars

\* C8, as claimed: _parse_hhmm accepts a text exactly when, trimmed, it is two
\* digits 00-23, a colon and two digits 00-59, and returns that hour and
\* minute.
C8_AcceptsExactlyHHMM ==
    out.done =>
        /\ out.res.ok <=> IsHHMM(strip(inp))
        /\ out.res.ok =>
              /\ out.res.hour = IntOf(SubSeq(strip(inp), 1, 2))
              /\ out.res.minute = IntOf(SubSeq(strip(inp), 4, 5))

(***************************************************************************)
(* The store on its own: any sequence of Storage calls, with /start and    *)
(* /stop among them                                                        *)
(***************************************************************************)
\* A Storage method ran for user uid: last names it, inp holds its arguments
\* and the user's row as it was before the call.
Call(t, uid, method, args) ==
    /\ user_prefs' = t
    /\ last' = [user |-> uid, reply |-> method]
    /\ inp' = [args |-> args, was |-> RowsOf(user_prefs, uid)]
    /\ UNCHANGED <<jobs, daily, startup_errors, out>>

UpsertUser(u) ==
    \E c \in Chats :
        Call(upsert_user(user_prefs, u, c), u, "upsert_user", [chat_id |-> c])

SetLanguage(u) ==
    \E c \in Chats :
        Call(set_language(user_prefs, u, c, en), u, "set_language",
             [chat_id |-> c, language |-> en])

StoreSetTime(u) ==
    \E c \in Chats, hhmm \in {t0815, t2100} :
        Call(set_time(user_prefs, u, c, hhmm), u, "set_time",
             [chat_id |-> c, time_hhmm |-> hhmm])

SetEnabled(u) ==
    \E b \in BOOLEAN :
        Call(set_enabled(user_prefs, u, b), u, "set_enabled", [enabled |-> b])

NextStore ==
    \E u \in Users :
        \/ UpsertUser(u)
        \/ SetLanguage(u)
        \/ StoreSetTime(u)
        \/ SetEnabled(u)
        \/ Start(u, Chats)
        \/ Stop(u)

SpecStore == Init /\ [][NextStore]_vars

\* the rows of the users other than u are the same in s and t
SameOthers(s, t, u) == \A v \in Users \ {u} : RowsOf(s, v) = RowsOf(t, v)

\* C9: whatever the store operations, user_prefs has at most one row per
\* user_id; upsert_user on an existing user sets chat_id to the call's value
\* and leaves time_hhmm, enabled and language (and every other row) as they
\* were; a disabled user who sends /start is still disabled afterwards.
C9_UpsertRefreshesChatOnly ==
    /\ [](\A u \in Users : Cardinality(RowsOf(user_prefs, u)) <= 1)
    /\ [][\A u \in Users :
            /\ (last'.user = u /\ last'.reply = "upsert_user" /\ HasRow(user_prefs, u))
                  => /\ Cardinality(RowsOf(user_prefs', u)) = 1
                     /\ get_user(user_prefs', u).chat_id = inp'.args.chat_id
                     /\ get_user(user_prefs', u).time_hhmm = get_user(user_prefs, u).time_hhmm
                     /\ get_user(user_prefs', u).enabled = get_user(user_prefs, u).enabled
                     /\ get_user(user_prefs', u).language = get_user(user_prefs, u).language
                     /\ SameOthers(user_prefs, user_prefs', u)
            /\ (last'.user = u /\ last'.reply \in {"choose_lang", "today"}
                    /\ HasRow(user_prefs, u) /\ ~Enabled(u))
                  => /\ HasRow(user_prefs', u)
                     /\ ~get_user(user_prefs', u).enabled
                     /\ jobs' = jobs]_vars

\* C9 witness: user 1, stopped with a time and a language stored, has sent
\* /start from chat 2 and is still disabled, in one row that now has chat 2.
C9_Witness ==
    /\ last = [user |-> 1, reply |-> "today"]
    /\ RowsOf(user_prefs, 1) =
          {[user_id |-> 1, chat_id |-> 2, time_hhmm |-> t0815,
            enabled |-> FALSE, language |-> en]}

\* C10: set_enabled(user_id, false) changes only the enabled flag of that
\* user's row (time_hhmm, chat_id, language and the other rows stay); set_time
\* on a user stores the given time and leaves the user enabled.
C10_SetEnabledFlipsFlagOnly ==
    [][\A u \in Users :
        /\ (last'.user = u /\ last'.reply = "set_enabled" /\ ~inp'.args.enabled)
              => /\ HasRow(user_prefs', u) <=> HasRow(user_prefs, u)
                 /\ HasRow(user_prefs, u) =>
                       /\ ~get_user(user_prefs', u).enabled
                       /\ get_user(user_prefs', u).time_hhmm = get_user(user_prefs, u).time_hhmm
                       /\ get_user(user_prefs', u).chat_id = get_user(user_prefs, u).chat_id
                       /\ get_user(user_prefs', u).language = get_user(user_prefs, u).language
                 /\ SameOthers(user_prefs, user_prefs', u)
        /\ (last'.user = u /\ last'.reply = "set_time")
              => /\ HasRow(user_prefs', u)
                 /\ get_user(user_prefs', u).time_hhmm = inp'.args.time_hhmm
                 /\ get_user(user_prefs', u).enabled]_vars

\* C10 witness: user 1, disabled by set_enabled(1, False) with 08:15 stored,
\* has had set_time(1, 1, "21:00") and is enabled with 21:00.
C10_Witness ==
    /\ last = [user |-> 1, reply |-> "set_time"]
    /\ inp = [args |-> [chat_id |-> 1, time_hhmm |-> t2100],
              was |-> {[user_id |-> 1, chat_id |-> 1, time_hhmm |-> t0815,
                        enabled |-> FALSE, language |-> NULL]}]
    /\ RowsOf(user_prefs, 1) =
          {[user_id |-> 1, chat_id |-> 1, time_hhmm |-> t2100,
            enabled |-> TRUE, language |-> NULL]}

\* C11, as claimed: after set_language the user is enabled, also when the
\* user had been disabled before.
C11_SetLanguageEnables ==
    last.reply = "set_language" => get_user(user_prefs, last.user).enabled

\* C11, amended: set_language leaves one row for the user with the given
\* language and chat_id; a row that was missing is created enabled with no
\* time, a row that was there keeps its enabled flag and its time_hhmm, so a
\* disabled user stays disabled; the LANG:<code> button does the same.
C11_SetLanguageKeepsEnabled ==
    /\ last.reply = "set_language" =>
          LET now_ == get_user(user_prefs, last.user) IN
          /\ Cardinality(RowsOf(user_prefs, last.user)) = 1
          /\ now_.language = inp.args.language
          /\ now_.chat_id = inp.args.chat_id
          /\ \A was \in inp.was :
                now_.enabled = was.enabled /\ now_.time_hhmm = was.time_hhmm
          /\ inp.was = {} => now_.enabled /\ now_.time_hhmm = NULL
    /\ \A u \in Users, c \in Chats :
          LET r == on_button(user_prefs, jobs, u, c, [tag |-> "LANG:", arg |-> en], FALSE)
          IN  /\ get_user(r.prefs, u).language = en
              /\ get_user(r.prefs, u).enabled = (HasRow(user_prefs, u) => Enabled(u))

\* C11 witness: user 1, disabled with 08:15 stored and no language, has had
\* set_language(1, 2, "en") and is still disabled.
C11_Witness ==
    /\ last = [user |-> 1, reply |-> "set_language"]
    /\ inp.was = {[user_id |-> 1, chat_id |-> 1, time_hhmm |-> t0815,
                   enabled |-> FALSE, language |-> NULL]}
    /\ RowsOf(user_prefs, 1) =
          {[user_id |-> 1, chat_id |-> 2, time_hhmm |-> t0815,
            enabled |-> FALSE, language |-> en]}

(***************************************************************************)
(* The feed file and its loaders: src/finalbotbeforeimprovments/           *)
(* formatter.py and utils.py, _load_today_or_friendly of src/thebot/bot.py *)
(* and of src/improvments/iii.py                                           *)
(*                                                                         *)
(* A JSON value is a record: kind says what it is; an object has a date    *)
(* ("(absent)" when it has no "date" key), a prayers value and other,      *)
(* which tells whether it has further keys (source_url, scraped_at); an    *)
(* array has items.  A prayers value has its own kind and, for a mapping,  *)
(* its entries <<name, time>> in insertion order (for a list or a string,  *)
(* its elements).                                                          *)
(***************************************************************************)
Absent == "(absent)"

NoPrayers == [kind |-> "absent", entries |-> <<>>]

Json(kind, date, prayers, other, items) ==
    [kind |-> kind, date |-> date, prayers |-> prayers, other |-> other, items |-> items]

Obj(date, prayers, other) == Json("object", date, prayers, other, <<>>)

Arr(items) == Json("array", Absent, NoPrayers, FALSE, items)

Scalar(kind) == Json(kind, Absent, NoPrayers, FALSE, <<>>)

\* {}
EmptyRecord == Obj(Absent, NoPrayers, FALSE)

\* Python's None where a payload is expected
None == Scalar("None")

\* bool(x) of a JSON value's "prayers" entry: None, {}, [] and "" are false
TruthyPrayers(pr) == pr.kind \notin {"absent", "null"} /\ pr.entries # <<>>

\* bool(x) of a loaded record
Truthy(v) ==
    CASE v.kind = "object" -> v # EmptyRecord
      [] v.kind = "array" -> v.items # <<>>
      [] v.kind \in {"null", "None"} -> FALSE
      [] OTHER -> TRUE

\* The file at data_file: "missing", "garbage" (not JSON) or a JSON document
File(state, json) == [state |-> state, json |-> json]

\* load_latest without the isinstance(..., dict) tests (old.version1.formatter)
load_latest_unchecked(file) ==
    IF file.state # "json" THEN [raised |-> TRUE, value |-> None]
    ELSE IF file.json.kind = "array"
         THEN IF file.json.items = <<>>
              THEN [raised |-> FALSE, value |-> EmptyRecord]
              ELSE [raised |-> FALSE, value |-> file.json.items[1]]
         ELSE [raised |-> FALSE, value |-> file.json]

\* formatter.load_latest: open() or json.load() raise on a missing or
\* unparsable file
load_latest(file) ==
    IF file.state # "json" THEN [raised |-> TRUE, value |-> None]
    ELSE IF file.json.kind = "array"
         THEN IF file.json.items = <<>>
              THEN [raised |-> FALSE, value |-> EmptyRecord]
              ELSE [raised |-> FALSE,
                    value |-> IF file.json.items[1].kind = "object"
                              THEN file.json.items[1] ELSE EmptyRecord]
         ELSE [raised |-> FALSE,
               value |-> IF file.json.kind = "object" THEN file.json ELSE EmptyRecord]

\* DataLoader._cache_duration
cache_duration == 300

\* DataLoader.__init__
NewLoader == [cache |-> None, last_loaded |-> 0]

\* get_data that reloads when now - _last_loaded >= _cache_duration
get_data_reloads_at_limit(self, at, file) ==
    IF self.cache = None \/ at - self.last_loaded >= cache_duration
    THEN LET r == load_latest(file) IN
         IF ~r.raised
         THEN [self |-> [cache |-> r.value, last_loaded |-> at], value |-> r.value,
               read |-> TRUE, failed |-> FALSE, raised |-> FALSE]
         ELSE [self |-> self,
               value |-> IF self.cache = None THEN EmptyRecord ELSE self.cache,
               read |-> TRUE, failed |-> TRUE, raised |-> FALSE]
    ELSE [self |-> self, value |-> self.cache, read |-> FALSE, failed |-> FALSE,
          raised |-> FALSE]

\* get_data that stamps _last_loaded also when the reload failed
get_data_stamps_failure(self, at, file) ==
    IF self.cache = None \/ at - self.last_loaded > cache_duration
    THEN LET r == load_latest(file) IN
         IF ~r.raised
         THEN [self |-> [cache |-> r.value, last_loaded |-> at], value |-> r.value,
               read |-> TRUE, failed |-> FALSE, raised |-> FALSE]
         ELSE [self |-> [self EXCEPT !.last_loaded = at],
               value |-> IF self.cache = None THEN EmptyRecord ELSE self.cache,
               read |-> TRUE, failed |-> TRUE, raised |-> FALSE]
    ELSE [self |-> self, value |-> self.cache, read |-> FALSE, failed |-> FALSE,
          raised |-> FALSE]

\* get_data without the try/except around load_latest
get_data_no_except(self, at, file) ==
    IF self.cache = None \/ at - self.last_loaded > cache_duration
    THEN LET r == load_latest(file) IN
         IF ~r.raised
         THEN [self |-> [cache |-> r.value, last_loaded |-> at], value |-> r.value,
               read |-> TRUE, failed |-> FALSE, raised |-> FALSE]
         ELSE [self |-> self, value |-> None,
               read |-> TRUE, failed |-> TRUE, raised |-> TRUE]
    ELSE [self |-> self, value |-> self.cache, read |-> FALSE, failed |-> FALSE,
          raised |-> FALSE]

\* DataLoader.get_data at time.time() = at with the file as it is then:
\* self is the loader afterwards, value what is returned, read whether
\* load_latest was called, failed whether it raised, raised whether get_data
\* itself raised
get_data(self, at, file) ==
    IF self.cache = None \/ at - self.last_loaded > cache_duration
    THEN LET r == load_latest(file) IN
         IF ~r.raised
         THEN [self |-> [cache |-> r.value, last_loaded |-> at], value |-> r.value,
               read |-> TRUE, failed |-> FALSE, raised |-> FALSE]
         ELSE [self |-> self,
               value |-> IF self.cache = None THEN EmptyRecord ELSE self.cache,
               read |-> TRUE, failed |-> TRUE, raised |-> FALSE]
    ELSE [self |-> self, value |-> self.cache, read |-> FALSE, failed |-> FALSE,
          raised |-> FALSE]

\* tr(lang, key): the text of key in the table of lang, the English table for
\* a language that has none
tr(lang, key) == [lang |-> IF lang \in SUPPORTED_LANGS THEN lang ELSE en, key |-> key]

\* Python's None where a text is expected
NoText == [lang |-> <<>>, key |-> "None"]

\* _load_today_or_friendly of src/thebot/bot.py, after payload =
\* data_loader.get_data() gave got; today_msk is
\* datetime.now(MOSCOW_TZ).date().isoformat()
load_today_or_friendly(got, today_msk, lang) ==
    IF got.raised THEN [payload |-> None, friendly |-> tr(lang, "no_data")]
    ELSE IF ~Truthy(got.value) \/ got.value.kind # "object"
         THEN [payload |-> None, friendly |-> tr(lang, "no_data")]
    ELSE IF ~TruthyPrayers(got.value.prayers)
         THEN [payload |-> None, friendly |-> tr(lang, "no_data")]
    ELSE IF got.value.date # today_msk
         THEN [payload |-> None, friendly |-> tr(lang, "no_data")]
    ELSE [payload |-> got.value, friendly |-> NoText]

\* _load_today_or_friendly of src/improvments/iii.py, after payload =
\* load_latest(data_file) gave got
load_today_or_friendly_iii(got, today_msk, lang) ==
    IF got.raised THEN [payload |-> None, friendly |-> tr(lang, "no_data")]
    ELSE IF ~Truthy(got.value) \/ got.value.kind # "object"
         THEN [payload |-> None, friendly |-> tr(lang, "no_data")]
    ELSE IF ~TruthyPrayers(got.value.prayers) \/ got.value.prayers.kind # "object"
              \/ Len(got.value.prayers.entries) = 0
         THEN [payload |-> None, friendly |-> tr(lang, "no_data")]
    ELSE IF got.value.date # today_msk
         THEN [payload |-> None, friendly |-> tr(lang, "no_data")]
    ELSE [payload |-> got.value, friendly |-> NoText]

(***************************************************************************)
(* The loaders as functions of the feed file                               *)
(***************************************************************************)
Dates == {"2026-03-01", "2026-03-02"}

t0638 == <<"0", "6", ":", "3", "8">>
t1240 == <<"1", "2", ":", "4", "0">>
t1359 == <<"1", "3", ":", "5", "9">>

\* PRAYER_ORDER, transliterated: Фаджр, Шурук, Зухр, Аср, Магриб, Иша
PRAYER_ORDER == <<"Fajr", "Shuruq", "Zuhr", "Asr", "Maghrib", "Isha">>

Mapping(entries) == [kind |-> "object", entries |-> entries]

PrayersValues ==
    { NoPrayers, [kind |-> "null", entries |-> <<>>],
      Mapping(<<>>), Mapping(<<<<"Fajr", t0638>>>>),
      Mapping(<<<<"Fajr", t0638>>, <<"Zuhr", t1240>>, <<"Asr", t1359>>>>),
      [kind |-> "array", entries |-> <<>>],
      [kind |-> "array", entries |-> <<<<"0", t0638>>>>],
      [kind |-> "string", entries |-> <<<<"0", t0638>>>>] }

Objects == {Obj(d, pr, o) : d \in {Absent} \cup Dates, pr \in PrayersValues, o \in BOOLEAN}

Scalars == {Scalar("string"), Scalar("number"), Scalar("null")}

Documents ==
    Objects \cup Scalars \cup {Arr(<<>>)}
        \cup {Arr(<<x>>) : x \in Objects \cup Scalars}
        \cup {Arr(<<x, EmptyRecord>>) : x \in Scalars \cup {EmptyRecord}}

Files == {File("missing", None), File("garbage", None)} \cup {File("json", d) : d \in Documents}

LoadInit ==
    /\ inp \in [file : Files, today : Dates, lang : SUPPORTED_LANGS]
    /\ out = [done |-> FALSE]
    /\ user_prefs = {}
    /\ jobs = NoJobs
    /\ daily = [u \in Users |-> Idle]
    /\ startup_errors = {}
    /\ last = [user |-> 0, reply |-> "(none)"]

\* out.latest is load_latest(data_file); out.bot what bot.py's helper returns
\* with a DataLoader that has not read yet; out.iii what iii.py's returns
LoadStep ==
    /\ ~out.done
    /\ out' = [done |-> TRUE,
               latest |-> load_latest(inp.file),
               bot |-> load_today_or_friendly(get_data(NewLoader, 0, inp.file),
                                              inp.today, inp.lang),
               iii |-> load_today_or_friendly_iii(load_latest(inp.file),
                                                  inp.today, inp.lang)]
    /\ UNCHANGED <<user_prefs, jobs, daily, startup_errors, last, inp>>

SpecLoad == LoadInit /\ [][LoadStep]_vars

\* the record is a non-empty object with a non-empty prayers mapping, dated d
DataForToday(v, d) ==
    /\ v.kind = "object" /\ v # EmptyRecord
    /\ v.prayers.kind = "object" /\ v.prayers.entries # <<>>
    /\ v.date = d

\* r is the payload alone when the loaded record is data for today, and the
\* not-available text of the language alone otherwise
PayloadOrFriendly(r) ==
    IF ~out.latest.raised /\ DataForToday(out.latest.value, inp.today)
    THEN r = [payload |-> out.latest.value, friendly |-> NoText]
    ELSE r = [payload |-> None, friendly |-> tr(inp.lang, "no_data")]

\* C13: load_today_or_friendly returns the payload and no message exactly when
\* the loaded record is a non-empty object with a non-empty prayers mapping
\* whose date is today's Moscow date; otherwise, a load failure included, it
\* returns no payload and the localized not-available message.
C13_PayloadIffDataForToday ==
    out.done => PayloadOrFriendly(out.bot) /\ PayloadOrFriendly(out.iii)

Day1 == Obj("2026-03-01", Mapping(<<<<"Fajr", t0638>>>>), TRUE)
Day2 == Obj("2026-03-02", Mapping(<<<<"Fajr", t0638>>, <<"Zuhr", t1240>>>>), TRUE)

LoaderFiles ==
    { File("missing", None), File("garbage", None),
      File("json", Arr(<<Day1>>)), File("json", Arr(<<Day2>>)), File("json", Arr(<<>>)) }

\* no read has succeeded yet
NoRead == [ok |-> FALSE, time |-> 0, value |-> None]

\* inp: the file and time.time(); out: the loader, its latest call (at the
\* time at, returning value, having read the file or not, the read having
\* failed or not), the loader before that call, and the latest successful read
\* before (prev) and after (hist) that call
LoaderInit ==
    /\ inp \in [file : LoaderFiles, clock : {0}]
    /\ out = [loader |-> NewLoader, called |-> FALSE, at |-> 0, value |-> None,
              read |-> FALSE, failed |-> FALSE, raised |-> FALSE,
              before |-> NewLoader, prev |-> NoRead, hist |-> NoRead]
    /\ user_prefs = {}
    /\ jobs = NoJobs
    /\ daily = [u \in Users |-> Idle]
    /\ startup_errors = {}
    /\ last = [user |-> 0, reply |-> "(none)"]

Advance ==
    /\ inp.clock + Tick <= MaxClock
    /\ inp' = [inp EXCEPT !.clock = @ + Tick]
    /\ UNCHANGED <<user_prefs, jobs, daily, startup_errors, last, out>>

Replace ==
    /\ \E f \in LoaderFiles \ {inp.file} : inp' = [inp EXCEPT !.file = f]
    /\ UNCHANGED <<user_prefs, jobs, daily, startup_errors, last, out>>

GetData ==
    LET r == get_data(out.loader, inp.clock, inp.file) IN
    /\ out' = [loader |-> r.self, called |-> TRUE, at |-> inp.clock, value |-> r.value,
               read |-> r.read, failed |-> r.failed, raised |-> r.raised,
               before |-> out.loader, prev |-> out.hist,
               hist |-> IF r.read /\ ~r.failed
                        THEN [ok |-> TRUE, time |-> inp.clock, value |-> r.value]
                        ELSE out.hist]
    /\ UNCHANGED <<user_prefs, jobs, daily, startup_errors, last, inp>>

NextLoader == Advance \/ Replace \/ GetData

SpecLoader == LoaderInit /\ [][NextLoader]_vars

\* C14: get_data reads the file when no read has succeeded yet (its first
\* call among them); a call at most 300 seconds after the latest successful
\* read returns that read's value without reading the file; a call more than
\* 300 seconds after it reads the file.
C14_CachedForFiveMinutes ==
    out.called =>
        /\ ~out.prev.ok => out.read
        /\ (out.prev.ok /\ out.at - out.prev.time <= 300)
              => ~out.read /\ out.value = out.prev.value
        /\ (out.prev.ok /\ out.at - out.prev.time > 300) => out.read

\* C14 witness: exactly 300 seconds after a successful read, with the file
\* replaced by other data since, get_data returned the earlier value unread.
C14_Witness ==
    /\ out.called /\ out.prev.ok
    /\ out.at - out.prev.time = 300
    /\ out.at = inp.clock
    /\ ~out.read
    /\ out.value = Day1
    /\ inp.file = File("json", Arr(<<Day2>>))

\* C15: get_data never raises; when its read fails it returns the value cached
\* before (the latest successfully read one) or, if there is none, the empty
\* record, and the loader's cached value is what it was before the call.
C15_FailedReloadKeepsCache ==
    out.called =>
        /\ ~out.raised
        /\ out.failed =>
              /\ out.value = IF out.prev.ok THEN out.prev.value ELSE EmptyRecord
              /\ out.loader.cache = out.before.cache
              /\ out.hist = out.prev

\* C15 witness: a reload more than 300 seconds after the read of Day1 failed
\* on an unparsable file, and Day1 was returned.
C15_Witness ==
    /\ out.called /\ out.read /\ out.failed
    /\ out.prev.ok /\ out.at - out.prev.time > 300
    /\ out.at = inp.clock /\ inp.file = File("garbage", None)
    /\ out.value = Day1 /\ out.loader.cache = Day1

(***************************************************************************)
(* The formatter: _format_prayer_message of src/thebot/bot.py,             *)
(* _format_prayer_message_enhanced and _get_next_prayer_countdown of       *)
(* src/improvments/iii.py.  Of the message the model keeps the prayer      *)
(* lines (which key, highlighted or not) and the countdown.                *)
(***************************************************************************)
\* ord(c) for the characters of a time
CharCode(c) == IF c = ":" THEN 58 ELSE 48 + DigitVal(c)

\* s > t of two Python strings
RECURSIVE TextGreater(_, _)
TextGreater(s, t) ==
    IF s = <<>> THEN FALSE
    ELSE IF t = <<>> THEN TRUE
    ELSE IF Head(s) = Head(t) THEN TextGreater(Tail(s), Tail(t))
    ELSE CharCode(Head(s)) > CharCode(Head(t))

Range(q) == {q[i] : i \in 1..Len(q)}

\* the keys of a mapping, in insertion order
Keys(entries) == [i \in 1..Len(entries) |-> entries[i][1]]

\* key in prayers
HasKey(entries, key) == key \in Range(Keys(entries))

\* prayers[key]
ValueOf(entries, key) == (CHOOSE e \in Range(entries) : e[1] = key)[2]

NoKey == "(None)"

\* the first i at or after from with cond[i], 0 if there is none
RECURSIVE FirstFrom(_, _, _)
FirstFrom(cond, from, upto) ==
    IF from > upto THEN 0
    ELSE IF cond[from] THEN from
    ELSE FirstFrom(cond, from + 1, upto)

\* the countdown loop of bot.py with >= in place of >
next_prayer_key_at_or_after(entries, date_str, today_msk, current_time_str) ==
    IF date_str # today_msk THEN NoKey
    ELSE LET cond == [i \in 1..Len(PRAYER_ORDER) |->
                         /\ HasKey(entries, PRAYER_ORDER[i])
                         /\ ~TextGreater(current_time_str, ValueOf(entries, PRAYER_ORDER[i]))]
             i == FirstFrom(cond, 1, Len(PRAYER_ORDER))
         IN  IF i = 0 THEN NoKey ELSE PRAYER_ORDER[i]

\* bot.py 295-326: next_prayer_key, from is_today and the loop over
\* PRAYER_ORDER that stops at the first p_time > current_time_str
next_prayer_key(entries, date_str, today_msk, current_time_str) ==
    IF date_str # today_msk THEN NoKey
    ELSE LET cond == [i \in 1..Len(PRAYER_ORDER) |->
                         /\ HasKey(entries, PRAYER_ORDER[i])
                         /\ TextGreater(ValueOf(entries, PRAYER_ORDER[i]), current_time_str)]
             i == FirstFrom(cond, 1, Len(PRAYER_ORDER))
         IN  IF i = 0 THEN NoKey ELSE PRAYER_ORDER[i]

\* the elements of q that satisfy keep, in q's order
RECURSIVE Filter(_, _)
Filter(q, keep) ==
    IF q = <<>> THEN <<>>
    ELSE (IF Head(q) \in keep THEN <<Head(q)>> ELSE <<>>) \o Filter(Tail(q), keep)

\* the two loops that append the prayer lines, with the second loop also
\* appending the keys the first has used
prayer_lines_repeating(entries) ==
    Filter(PRAYER_ORDER, Range(Keys(entries))) \o Keys(entries)

\* bot.py 329-349 and iii.py 452-463: a line per key of PRAYER_ORDER that is in
\* prayers (used), then a line per key of prayers.items() not in used
prayer_lines(entries) ==
    LET used == Range(PRAYER_ORDER) \cap Range(Keys(entries)) IN
    Filter(PRAYER_ORDER, Range(Keys(entries)))
        \o Filter(Keys(entries), Range(Keys(entries)) \ used)

\* minutes since midnight of a time "HH:MM"
MinuteOfDay(hhmm) == 60 * IntOf(SubSeq(hhmm, 1, 2)) + IntOf(SubSeq(hhmm, 4, 5))

\* a datetime of today: its second of the day, and whether it carries a
\* tzinfo (aware) or not (naive); microseconds are left out
DateTime(second, aware) == [second |-> second, aware |-> aware]

\* datetime.now(MOSCOW_TZ)
now_msk(clock) == DateTime(60 * MinuteOfDay(clock.hhmm) + clock.second, TRUE)

\* x - y for two datetimes: a timedelta, or TypeError ("can't subtract
\* offset-naive and offset-aware datetimes") when only one of them is aware
datetime_sub(x, y) ==
    IF x.aware # y.aware THEN [raised |-> TRUE, seconds |-> 0]
    ELSE [raised |-> FALSE, seconds |-> x.second - y.second]

\* nothing is shown
NoTimeLeft == [raised |-> FALSE, shown |-> FALSE, hours |-> 0, minutes |-> 0]

\* bot.py 313-324: target = now_msk.replace(hour, minute, second=0), diff =
\* target - now_msk, hours and minutes of int(diff.total_seconds()); the
\* bare except leaves time_left_str empty
time_left(p_time, clock) ==
    LET now_ == now_msk(clock)
        target == [now_ EXCEPT !.second = 60 * MinuteOfDay(p_time)]
        diff == datetime_sub(target, now_)
    IN  IF diff.raised THEN NoTimeLeft
        ELSE [raised |-> FALSE, shown |-> TRUE,
              hours |-> diff.seconds \div 3600,
              minutes |-> (diff.seconds % 3600) \div 60]

\* iii.py 408-412: next_dt = datetime.combine(now.date(), next_time), with
\* next_time the naive time strptime gave; diff = next_dt - now, outside any
\* try; hours and minutes of diff.seconds
time_left_iii(next_time, clock) ==
    LET now_ == now_msk(clock)
        next_dt == DateTime(60 * MinuteOfDay(next_time), FALSE)
        diff == datetime_sub(next_dt, now_)
    IN  IF diff.raised THEN [raised |-> TRUE, shown |-> FALSE, hours |-> 0, minutes |-> 0]
        ELSE [raised |-> FALSE, shown |-> TRUE,
              hours |-> (diff.seconds % 86400) \div 3600,
              minutes |-> ((diff.seconds % 86400) % 3600) \div 60]

\* iii.py 377-417, _get_next_prayer_countdown: the first key of PRAYER_ORDER
\* in prayers whose time of day is after now.time(); the line it returns is
\* tr(lang, "next_prayer_tomorrow") when there is none, and the next_prayer
\* line with the time left otherwise, unless the subtraction raised
countdown_iii(entries, clock) ==
    LET cond == [i \in 1..Len(PRAYER_ORDER) |->
                    /\ HasKey(entries, PRAYER_ORDER[i])
                    /\ 60 * MinuteOfDay(ValueOf(entries, PRAYER_ORDER[i]))
                          > 60 * MinuteOfDay(clock.hhmm) + clock.second]
        i == FirstFrom(cond, 1, Len(PRAYER_ORDER))
    IN  IF i = 0 THEN [line |-> "next_prayer_tomorrow", key |-> NoKey, raised |-> FALSE]
        ELSE LET left == time_left_iii(ValueOf(entries, PRAYER_ORDER[i]), clock) IN
             [line |-> IF left.raised THEN "(raised)" ELSE "next_prayer",
              key |-> PRAYER_ORDER[i], raised |-> left.raised]

\* the I18N texts a rendered message of bot.py contains besides its prayer
\* lines: header and date label; the highlighted line carries no text of its
\* own (a bell and the time left)
message_texts(entries, next) == {"pt_header", "date_label"}

\* the same for iii.py, whose message ends with the countdown line; an
\* exception of _get_next_prayer_countdown leaves the formatter, and there is
\* no message
message_texts_iii(entries, countdown) ==
    IF countdown.raised THEN {} ELSE {"pt_header", "date_label", countdown.line}

(***************************************************************************)
(* The formatter as a function of the payload and the Moscow clock         *)
(***************************************************************************)
ExtraKeys == {"Tahajjud", "Witr"}

AllKeys == Range(PRAYER_ORDER) \cup ExtraKeys

\* the time the feed gives for a prayer
TimeOf(key) ==
    CASE key = "Fajr" -> t0638
      [] key = "Shuruq" -> <<"0", "8", ":", "0", "5">>
      [] key = "Zuhr" -> t1240
      [] key = "Asr" -> t1359
      [] key = "Maghrib" -> <<"1", "6", ":", "2", "0">>
      [] key = "Isha" -> <<"1", "8", ":", "0", "1">>
      [] key = "Tahajjud" -> <<"0", "3", ":", "0", "0">>
      [] OTHER -> <<"2", "1", ":", "3", "0">>

\* the mappings of 1..MaxKeys distinct keys, in every insertion order
KeyOrders ==
    UNION {{q \in [1..n -> AllKeys] : \A i, j \in 1..n : q[i] = q[j] => i = j}
              : n \in 1..MaxKeys}

EntriesOf(q) == [i \in 1..Len(q) |-> <<q[i], TimeOf(q[i])>>]

\* datetime.now(MOSCOW_TZ): "%H:%M" and the second
Clocks ==
    [hhmm : {<<"0", "6", ":", "0", "0">>, t1240, <<"1", "2", ":", "4", "1">>,
             <<"1", "3", ":", "5", "8">>, <<"1", "9", ":", "0", "0">>},
     second : {0, 30}]

FormatInit ==
    /\ inp \in [prayers : {EntriesOf(q) : q \in KeyOrders}, date : Dates,
                today : {"2026-03-01"}, clock : Clocks]
    /\ out = [done |-> FALSE]
    /\ user_prefs = {}
    /\ jobs = NoJobs
    /\ daily = [u \in Users |-> Idle]
    /\ startup_errors = {}
    /\ last = [user |-> 0, reply |-> "(none)"]

\* bot.py renders any payload it is given; iii.py's handlers render only a
\* payload that _load_today_or_friendly returned, one dated today
FormatStep ==
    /\ ~out.done
    /\ LET next == next_prayer_key(inp.prayers, inp.date, inp.today, inp.clock.hhmm)
           countdown == countdown_iii(inp.prayers, inp.clock)
       IN  out' = [done |-> TRUE,
                   lines |-> prayer_lines(inp.prayers),
                   next |-> next,
                   texts |-> message_texts(inp.prayers, next),
                   iii |-> IF inp.date = inp.today
                           THEN [rendered |-> TRUE, countdown |-> countdown,
                                 texts |-> message_texts_iii(inp.prayers, countdown)]
                           ELSE [rendered |-> FALSE,
                                 countdown |-> [line |-> "(none)", key |-> NoKey,
                                               raised |-> FALSE],
                                 texts |-> {"no_data"}]]
    /\ UNCHANGED <<user_prefs, jobs, daily, startup_errors, last, inp>>

SpecFormat == FormatInit /\ [][FormatStep]_vars

\* the place of x in q
Pos(q, x) == CHOOSE i \in 1..Len(q) : q[i] = x

Canonical(key) == key \in Range(PRAYER_ORDER)

\* C17: the prayer lines name every key of the mapping exactly once: the
\* canonical keys first, in the order Fajr, Shuruq, Zuhr, Asr, Maghrib, Isha,
\* then the other keys in the order of the mapping.
C17_CanonicalOrderThenInsertionOrder ==
    out.done =>
        LET L == out.lines
            K == Keys(inp.prayers)
        IN  /\ Len(L) = Len(K)
            /\ Range(L) = Range(K)
            /\ \A i, j \in 1..Len(L) :
                  i < j =>
                      /\ Canonical(L[j]) => Canonical(L[i])
                      /\ (Canonical(L[i]) /\ Canonical(L[j]))
                            => Pos(PRAYER_ORDER, L[i]) < Pos(PRAYER_ORDER, L[j])
                      /\ (~Canonical(L[i]) /\ ~Canonical(L[j]))
                            => Pos(K, L[i]) < Pos(K, L[j])

\* C17 witness: the mapping Witr, Asr, Tahajjud was rendered as Asr, Witr,
\* Tahajjud.
C17_Witness ==
    /\ out.done
    /\ Keys(inp.prayers) = <<"Witr", "Asr", "Tahajjud">>
    /\ out.lines = <<"Asr", "Witr", "Tahajjud">>

\* key is in the mapping with a time after the clock's minute
After(key) ==
    /\ HasKey(inp.prayers, key)
    /\ MinuteOfDay(ValueOf(inp.prayers, key)) > MinuteOfDay(inp.clock.hhmm)

\* key is the first canonical key with a time after the clock's minute, or
\* NoKey when there is none
FirstAfter(key) ==
    IF key = NoKey THEN \A k \in Range(PRAYER_ORDER) : ~After(k)
    ELSE /\ Canonical(key) /\ After(key)
         /\ \A k \in Range(PRAYER_ORDER) :
               Pos(PRAYER_ORDER, k) < Pos(PRAYER_ORDER, key) => ~After(k)

\* C18, as claimed: for a payload dated today the countdown selects the first
\* prayer in canonical order whose time is after the current Moscow minute,
\* never one at or before it, and renders it with its remaining time; for a
\* payload not dated today it selects none.
C18_NextPrayerIsFirstLater ==
    out.done =>
        /\ inp.date = inp.today => FirstAfter(out.next)
        /\ inp.date # inp.today => out.next = NoKey
        /\ out.iii.rendered =>
              /\ FirstAfter(out.iii.countdown.key)
              /\ ~out.iii.countdown.raised
              /\ out.iii.countdown.key # NoKey => "next_prayer" \in out.iii.texts

\* C19: when the Moscow time is later than every prayer time of today's
\* payload, no prayer is selected as next and the message contains the "next
\* prayer is tomorrow" line.
C19_TomorrowLine ==
    (/\ out.done /\ inp.date = inp.today
     /\ \A k \in Range(Keys(inp.prayers)) :
           MinuteOfDay(ValueOf(inp.prayers, k)) < MinuteOfDay(inp.clock.hhmm))
        => /\ out.next = NoKey
           /\ out.iii.countdown.key = NoKey
           /\ "next_prayer_tomorrow" \in out.iii.texts
           /\ "next_prayer_tomorrow" \in out.texts

(***************************************************************************)
(* The response cache.  cache.py (CacheManager) is imported by             *)
(* src/improvments/iii.py; its get and set follow the Response Cache       *)
(* section of the specification: a key -> (value, expiry) map, set storing *)
(* an absolute expiry of now + ttl_seconds, get returning the value if     *)
(* present and not expired.                                                *)
(***************************************************************************)
\* a rendered prayer-times message: the date of the payload it was rendered
\* from and its language
Msg(date, lang) == [date |-> date, lang |-> lang]

\* Python's None where a message is expected
NoMsg == Msg(Absent, <<>>)

\* cache_key = f"prayer_msg_{lang}"
cache_key(lang) == <<"prayer_msg_">> \o lang

CacheLangs == {en, ar}

CacheKeys == {cache_key(l) : l \in CacheLangs}

\* CacheManager()
NewCache == [k \in CacheKeys |-> [present |-> FALSE, value |-> NoMsg, expiry |-> 0]]

\* a cache with one slot for every key
cache_set_shared(cache, key, value, ttl_seconds, at) ==
    [k \in CacheKeys |-> [present |-> TRUE, value |-> value, expiry |-> at + ttl_seconds]]

\* CacheManager.set at time.time() = at
cache_set(cache, key, value, ttl_seconds, at) ==
    [cache EXCEPT ![key] = [present |-> TRUE, value |-> value, expiry |-> at + ttl_seconds]]

\* CacheManager.get at time.time() = at
cache_get(cache, key, at) ==
    IF cache[key].present /\ at < cache[key].expiry THEN cache[key].value ELSE NoMsg

Ttls == {Tick, 3 * Tick}

NeverSet == [set |-> FALSE, value |-> NoMsg, at |-> 0, ttl |-> 0]

\* inp: time.time(); out: the cache, for every key the latest set of that key
\* (sets), and the get that has just returned, if one has: of key, at the
\* time at, returning value
CacheInit ==
    /\ inp = [clock |-> 0]
    /\ out = [cache |-> NewCache, called |-> FALSE, key |-> cache_key(en), at |-> 0,
              value |-> NoMsg, sets |-> [k \in CacheKeys |-> NeverSet]]
    /\ user_prefs = {}
    /\ jobs = NoJobs
    /\ daily = [u \in Users |-> Idle]
    /\ startup_errors = {}
    /\ last = [user |-> 0, reply |-> "(none)"]

\* the caller of the latest get has gone on
Returned(o) ==
    [o EXCEPT !.called = FALSE, !.key = cache_key(en), !.at = 0, !.value = NoMsg]

CacheTick ==
    /\ inp.clock + Tick <= MaxClock
    /\ inp' = [inp EXCEPT !.clock = @ + Tick]
    /\ out' = Returned(out)
    /\ UNCHANGED <<user_prefs, jobs, daily, startup_errors, last>>

CacheSet ==
    \E l \in CacheLangs, d \in Dates, ttl \in Ttls :
        /\ out' = [Returned(out) EXCEPT
                     !.cache = cache_set(out.cache, cache_key(l), Msg(d, l), ttl, inp.clock),
                     !.sets[cache_key(l)] =
                         [set |-> TRUE, value |-> Msg(d, l), at |-> inp.clock, ttl |-> ttl]]
        /\ UNCHANGED <<user_prefs, jobs, daily, startup_errors, last, inp>>

CacheGet ==
    \E l \in CacheLangs :
        /\ out' = [out EXCEPT !.called = TRUE, !.key = cache_key(l), !.at = inp.clock,
                              !.value = cache_get(out.cache, cache_key(l), inp.clock)]
        /\ UNCHANGED <<user_prefs, jobs, daily, startup_errors, last, inp>>

NextCache == CacheTick \/ CacheSet \/ CacheGet

SpecCache == CacheInit /\ [][NextCache]_vars

\* C20: get(key) returns the value of the latest set(key, value, ttl) when
\* fewer than ttl seconds have passed since that set, and nothing when ttl
\* seconds or more have passed or the key was never set; what was set under
\* another language's key makes no difference.
C20_CacheHonoursTtlPerKey ==
    out.called =>
        LET latest == out.sets[out.key] IN
        IF latest.set /\ out.at - latest.at < latest.ttl
        THEN out.value = latest.value
        ELSE out.value = NoMsg

\* C20 witness: the English message was set, the Arabic one was set later
\* with a longer ttl, and a get of the English key at its expiry found nothing
\* while the Arabic message was still held.
C20_Witness ==
    /\ out.called /\ out.key = cache_key(en) /\ out.value = NoMsg
    /\ out.sets[cache_key(en)].set
    /\ out.at = out.sets[cache_key(en)].at + out.sets[cache_key(en)].ttl
    /\ out.sets[cache_key(ar)].set
    /\ out.sets[cache_key(ar)].at > out.sets[cache_key(en)].at
    /\ cache_get(out.cache, cache_key(ar), out.at) = out.sets[cache_key(ar)].value

(***************************************************************************)
(* Delivery across midnight: the prayer-times message of src/thebot/bot.py *)
(* (DataLoader, date test on every call) and of src/improvments/iii.py     *)
(* (response cache in front of the date test)                              *)
(***************************************************************************)

\* the clock value at which the Moscow date changes
Midnight == 500

\* datetime.now(MSK).date().isoformat()
today_msk(clock) == IF clock < Midnight THEN "2026-03-01" ELSE "2026-03-02"

NothingSent == [by |-> "none", kind |-> "none", msg |-> NoMsg, today |-> Absent,
                cached |-> FALSE]

\* inp: the feed file, time.time() and CACHE_PRAYERS_MINUTES * 60; out: the
\* DataLoader of bot.py, the response cache of iii.py and the latest message
\* sent (by which program, the payload date and language it was rendered
\* from, the Moscow date when it was sent, served from the cache or not)
FreshInit ==
    /\ inp \in [file : LoaderFiles, clock : {0}, ttl : Ttls]
    /\ out = [loader |-> NewLoader, cache |-> NewCache, sent |-> NothingSent]
    /\ user_prefs = {}
    /\ jobs = NoJobs
    /\ daily = [u \in Users |-> Idle]
    /\ startup_errors = {}
    /\ last = [user |-> 0, reply |-> "(none)"]

\* bot.py: now, the NOW button, /start, LANG:<code> and send_daily
DeliverBot ==
    \E lang \in CacheLangs :
        LET got == get_data(out.loader, inp.clock, inp.file)
            r == load_today_or_friendly(got, today_msk(inp.clock), lang)
        IN  /\ out' = [out EXCEPT
                         !.loader = got.self,
                         !.sent = IF r.friendly # NoText
                                  THEN [by |-> "bot", kind |-> "friendly", msg |-> NoMsg,
                                        today |-> today_msk(inp.clock), cached |-> FALSE]
                                  ELSE [by |-> "bot", kind |-> "prayers",
                                        msg |-> Msg(r.payload.date, lang),
                                        today |-> today_msk(inp.clock), cached |-> FALSE]]
            /\ UNCHANGED <<user_prefs, jobs, daily, startup_errors, last, inp>>

\* iii.py: now, the NOW button and send_daily
DeliverIii ==
    \E lang \in CacheLangs :
        LET key == cache_key(lang)
            hit == cache_get(out.cache, key, inp.clock)
            r == load_today_or_friendly_iii(load_latest(inp.file), today_msk(inp.clock), lang)
            msg == Msg(r.payload.date, lang)
        IN  /\ out' =
                  IF hit # NoMsg
                  THEN [out EXCEPT !.sent = [by |-> "iii", kind |-> "prayers", msg |-> hit,
                                             today |-> today_msk(inp.clock), cached |-> TRUE]]
                  ELSE IF r.friendly # NoText
                  THEN [out EXCEPT !.sent = [by |-> "iii", kind |-> "friendly", msg |-> NoMsg,
                                             today |-> today_msk(inp.clock), cached |-> FALSE]]
                  ELSE [out EXCEPT
                          !.cache = cache_set(out.cache, key, msg, inp.ttl, inp.clock),
                          !.sent = [by |-> "iii", kind |-> "prayers", msg |-> msg,
                                    today |-> today_msk(inp.clock), cached |-> FALSE]]
            /\ UNCHANGED <<user_prefs, jobs, daily, startup_errors, last, inp>>

NextFresh == Advance \/ Replace \/ DeliverBot \/ DeliverIii

SpecFresh == FreshInit /\ [][NextFresh]_vars

\* C12: every prayer-times message delivered, one served from the
\* per-language response cache included, is rendered from a feed payload whose
\* date is the Moscow date at the moment of sending.
C12_DeliveredIsDatedToday ==
    out.sent.kind = "prayers" => out.sent.msg.date = out.sent.today

(***************************************************************************)
(* Broadcast: broadcast_cmd of src/thebot/bot.py; broadcast_cmd and        *)
(* execute_broadcast of src/improvments/iii.py                             *)
(***************************************************************************)
Recipients == 1..NumRecipients

\* str(n) for a one-digit n
str_int(n) == <<<<"0", "1", "2", "3", "4", "5", "6", "7", "8", "9">>[n + 1]>>

\* str(os.getenv("ADMIN_ID")): "None" when the variable is unset
str_env(v) == IF v = NULL THEN <<"N", "o", "n", "e">> ELSE v

\* a security check that lets everybody in while ADMIN_ID is unset
refused_unless_unset(user_id, admin_id) ==
    admin_id # NULL /\ str_int(user_id) # str_env(admin_id)

\* bot.py: if str(user_id) != str(admin_id): return
refused(user_id, admin_id) == str_int(user_id) # str_env(admin_id)

\* iii.py: if update.effective_user.id != ADMIN_ID (0 stands for no identity)
refused_iii(user_id, ADMIN_ID) == user_id # ADMIN_ID

\* the loop state before the first iteration over users
NewLoop(users) ==
    [users |-> users, i |-> 1, sent_count |-> 0, failed_count |-> 0, attempts |-> <<>>]

\* a loop body whose except clause leaves the loop
send_one_aborting(b, raised) ==
    [b EXCEPT !.attempts = Append(@, [user_id |-> b.users[b.i].user_id, raised |-> raised]),
              !.sent_count = IF raised THEN @ ELSE @ + 1,
              !.failed_count = IF raised THEN @ + 1 ELSE @,
              !.i = IF raised THEN Len(b.users) + 1 ELSE @ + 1]

\* a loop body that tries the same user again after a failure
send_one_retrying(b, raised) ==
    [b EXCEPT !.attempts = Append(@, [user_id |-> b.users[b.i].user_id, raised |-> raised]),
              !.sent_count = IF raised THEN @ ELSE @ + 1,
              !.failed_count = IF raised THEN @ + 1 ELSE @,
              !.i = IF raised THEN @ ELSE @ + 1]

\* one iteration of "for prefs in users": send_message to prefs.chat_id,
\* which returns or raises, then the count
send_one(b, raised) ==
    [b EXCEPT !.attempts = Append(@, [user_id |-> b.users[b.i].user_id, raised |-> raised]),
              !.sent_count = IF raised THEN @ ELSE @ + 1,
              !.failed_count = IF raised THEN @ + 1 ELSE @,
              !.i = @ + 1]

\* a user_prefs row of a recipient
RecipientRow(u, enabled) ==
    [user_id |-> u, chat_id |-> 1, time_hhmm |-> NULL, enabled |-> enabled, language |-> en]

\* the tables with at most one row per recipient
RecipientTables ==
    { {RecipientRow(u, f[u] = "on") : u \in {v \in Recipients : f[v] # "none"}} :
        f \in [Recipients -> {"none", "on", "off"}] }

\* what ADMIN_ID is set to in the environment of bot.py
AdminEnvs == {NULL, <<"N", "o", "n", "e">>, <<"0", "1">>, str_int(1), str_int(2)}

NoBroadcast ==
    [pc |-> "idle", caller |-> 0, loop |-> NewLoop(<<>>), enabled_at_start |-> {},
     replies |-> <<>>, summary |-> <<>>]

\* inp: the program (bot.py or iii.py) and its admin identity; out: the
\* broadcast (where it stands, who asked, the loop, the users enabled when
\* the users were listed, the replies to the caller, the summaries sent)
BroadcastInit ==
    /\ user_prefs \in RecipientTables
    /\ inp \in [gen : {"bot"}, admin_id : AdminEnvs, ADMIN_ID : {0}]
               \cup [gen : {"iii"}, admin_id : {NULL}, ADMIN_ID : 0..2]
    /\ out = NoBroadcast
    /\ jobs = NoJobs
    /\ daily = [u \in Users |-> Idle]
    /\ startup_errors = {}
    /\ last = [user |-> 0, reply |-> "(none)"]

EnabledNow == {r.user_id : r \in {x \in user_prefs : x.enabled}}

\* bot.py broadcast_cmd up to the loop
BroadcastCmd ==
    /\ inp.gen = "bot" /\ out.pc = "idle"
    /\ \E user_id \in Recipients, args \in BOOLEAN :
          out' = IF refused(user_id, inp.admin_id)
                 THEN [out EXCEPT !.pc = "refused", !.caller = user_id]
                 ELSE IF ~args
                 THEN [out EXCEPT !.pc = "refused", !.caller = user_id,
                                  !.replies = Append(@, "usage")]
                 ELSE [out EXCEPT !.pc = "sending", !.caller = user_id,
                                  !.loop = NewLoop(list_enabled_users(user_prefs)),
                                  !.enabled_at_start = EnabledNow,
                                  !.replies = Append(@, "broadcast_start")]
    /\ UNCHANGED <<user_prefs, jobs, daily, startup_errors, last, inp>>

\* iii.py broadcast_cmd: the task is created, the caller is told
BroadcastCmdIii ==
    /\ inp.gen = "iii" /\ out.pc = "idle"
    /\ \E user_id \in Recipients, args \in BOOLEAN :
          out' = IF refused_iii(user_id, inp.ADMIN_ID)
                 THEN [out EXCEPT !.pc = "refused", !.caller = user_id,
                                  !.replies = Append(@, "unauthorized")]
                 ELSE IF ~args
                 THEN [out EXCEPT !.pc = "refused", !.caller = user_id,
                                  !.replies = Append(@, "usage")]
                 ELSE [out EXCEPT !.pc = "created", !.caller = user_id,
                                  !.replies = Append(@, "broadcasting")]
    /\ UNCHANGED <<user_prefs, jobs, daily, startup_errors, last, inp>>

\* iii.py execute_broadcast starts: the generator's first next() runs the
\* SELECT and fetchall()
ExecuteBroadcast ==
    /\ out.pc = "created"
    /\ out' = [out EXCEPT !.pc = "sending",
                          !.loop = NewLoop(list_enabled_users(user_prefs)),
                          !.enabled_at_start = EnabledNow]
    /\ UNCHANGED <<user_prefs, jobs, daily, startup_errors, last, inp>>

\* one iteration of the loop
BroadcastSend ==
    /\ out.pc = "sending" /\ out.loop.i <= Len(out.loop.users)
    /\ \E raised \in BOOLEAN : out' = [out EXCEPT !.loop = send_one(@, raised)]
    /\ UNCHANGED <<user_prefs, jobs, daily, startup_errors, last, inp>>

\* after the loop: the report to the admin
BroadcastReport ==
    /\ out.pc = "sending" /\ out.loop.i > Len(out.loop.users)
    /\ out' = [out EXCEPT !.pc = "done",
                          !.summary = Append(@, [sent |-> out.loop.sent_count,
                                                 failed |-> out.loop.failed_count])]
    /\ UNCHANGED <<user_prefs, jobs, daily, startup_errors, last, inp>>

\* while the broadcast awaits a send or sleeps, another update is handled:
\* some user's /stop, or a /settime that enables the user again
WhileAwaiting ==
    /\ out.pc \in {"created", "sending"}
    /\ \E u \in Recipients :
          /\ HasRow(user_prefs, u)
          /\ user_prefs' = set_enabled(user_prefs, u, ~get_user(user_prefs, u).enabled)
    /\ UNCHANGED <<jobs, daily, startup_errors, last, inp, out>>

BroadcastStep == ExecuteBroadcast \/ BroadcastSend \/ BroadcastReport

NextBroadcast == BroadcastCmd \/ BroadcastCmdIii \/ BroadcastStep \/ WhileAwaiting

SpecBroadcast == BroadcastInit /\ [][NextBroadcast]_vars

\* the event loop resumes a coroutine whose await has completed
SpecBroadcastLive == SpecBroadcast /\ WF_vars(BroadcastStep)

Raised(a) == Cardinality({k \in 1..Len(a) : a[k].raised})

\* C21: when a broadcast has finished, every user that was enabled when it
\* started has been attempted exactly once and nobody else, whatever sends
\* raised; sent + failed is the number of those users and failed is the number
\* of sends that raised.
C21_BroadcastAttemptsEveryEnabledUser ==
    out.pc = "done" =>
        LET a == out.loop.attempts IN
        /\ {a[k].user_id : k \in 1..Len(a)} = out.enabled_at_start
        /\ \A j, k \in 1..Len(a) : a[j].user_id = a[k].user_id => j = k
        /\ out.summary[1].sent + out.summary[1].failed = Cardinality(out.enabled_at_start)
        /\ out.summary[1].failed = Raised(a)

\* C21 witness: three recipients, the second send raised, the summary says
\* sent=2, failed=1.
C21_Witness ==
    /\ out.pc = "done"
    /\ Len(out.loop.attempts) = 3
    /\ out.loop.attempts[1].raised = FALSE
    /\ out.loop.attempts[2].raised = TRUE
    /\ out.loop.attempts[3].raised = FALSE
    /\ out.summary = <<[sent |-> 2, failed |-> 1]>>

\* user_id is the configured admin identity of the program
ConfiguredAdmin(user_id) ==
    IF inp.gen = "bot"
    THEN inp.admin_id # NULL /\ inp.admin_id = str_int(user_id)
    ELSE inp.ADMIN_ID # 0 /\ inp.ADMIN_ID = user_id

C23_BroadcastTerminatesWithOneSummary ==
    /\ [](Len(out.loop.attempts) <= Len(out.loop.users))
    /\ [](Len(out.summary) = IF out.pc = "done" THEN 1 ELSE 0)
    /\ (out.pc \in {"created", "sending"}) ~> (out.pc = "done" /\ Len(out.summary) = 1)

\* C23 witness: a broadcast finished and reported although every send failed.
C23_Witness ==
    /\ out.pc = "done"
    /\ Len(out.loop.attempts) = NumRecipients
    /\ \A k \in 1..Len(out.loop.attempts) : out.loop.attempts[k].raised
    /\ out.summary = <<[sent |-> 0, failed |-> NumRecipients]>>

(***************************************************************************)
(* The Friday reminder: friday_job of src/thebot/bot.py and                *)
(* friday_reminder_job of src/improvments/iii.py.  NotificationManager     *)
(* (notification.py) is imported by iii.py; get_settings reads the user's  *)
(* settings, creating the all-enabled defaults on the first read.          *)
(***************************************************************************)
\* the job before its first iteration over users
NewFriday(users) == [users |-> users, i |-> 1, attempts |-> <<>>, escaped |-> {}]

\* bot.py: one iteration of "for prefs in users": the send, which returns or
\* raises inside the try
friday_one(b, send_raised) ==
    [b EXCEPT !.attempts = Append(@, [user_id |-> b.users[b.i].user_id, raised |-> send_raised]),
              !.i = @ + 1]

\* iii.py: one iteration: get_settings outside the inner try (an exception
\* leaves the loop for the outer except), continue for a user who opted out,
\* the send inside the inner try
friday_one_iii(b, settings_raised, enable_friday_reminder, send_raised) ==
    IF settings_raised
    THEN [b EXCEPT !.i = Len(b.users) + 1, !.escaped = {b.users[b.i].user_id}]
    ELSE IF ~enable_friday_reminder THEN [b EXCEPT !.i = @ + 1]
    ELSE friday_one(b, send_raised)

\* inp: the program and the users whose enable_friday_reminder is false;
\* out: the run (where it stands, the loop with the sends attempted and the
\* user whose processing raised outside the inner try, the users enabled when
\* listed)
FridayInit ==
    /\ user_prefs \in RecipientTables
    /\ inp \in [gen : {"bot"}, opted_out : {{}}]
               \cup [gen : {"iii"}, opted_out : SUBSET Recipients]
    /\ out = [pc |-> "idle", loop |-> NewFriday(<<>>), enabled_at_start |-> {}]
    /\ jobs = NoJobs
    /\ daily = [u \in Users |-> Idle]
    /\ startup_errors = {}
    /\ last = [user |-> 0, reply |-> "(none)"]

\* the job queue calls the job
FridayStart ==
    /\ out.pc = "idle"
    /\ out' = [out EXCEPT !.pc = "running",
                          !.loop = NewFriday(list_enabled_users(user_prefs)),
                          !.enabled_at_start = EnabledNow]
    /\ UNCHANGED <<user_prefs, jobs, daily, startup_errors, last, inp>>

FridayOne ==
    /\ inp.gen = "bot" /\ out.pc = "running" /\ out.loop.i <= Len(out.loop.users)
    /\ \E send_raised \in BOOLEAN : out' = [out EXCEPT !.loop = friday_one(@, send_raised)]
    /\ UNCHANGED <<user_prefs, jobs, daily, startup_errors, last, inp>>

FridayOneIii ==
    /\ inp.gen = "iii" /\ out.pc = "running" /\ out.loop.i <= Len(out.loop.users)
    /\ \E settings_raised, send_raised \in BOOLEAN :
          out' = [out EXCEPT !.loop =
                     friday_one_iii(@, settings_raised,
                                    out.loop.users[out.loop.i].user_id \notin inp.opted_out,
                                    send_raised)]
    /\ UNCHANGED <<user_prefs, jobs, daily, startup_errors, last, inp>>

\* the loop is over, or the outer except has logged: the job returns
FridayReturn ==
    /\ out.pc = "running" /\ out.loop.i > Len(out.loop.users)
    /\ out' = [out EXCEPT !.pc = "returned"]
    /\ UNCHANGED <<user_prefs, jobs, daily, startup_errors, last, inp>>

NextFriday == FridayStart \/ FridayOne \/ FridayOneIii \/ FridayReturn

SpecFriday == FridayInit /\ [][NextFriday]_vars

\* C24: when a run of the Friday reminder has returned, no send has been
\* attempted to a user who opted out or was not enabled, and a send has been
\* attempted to every enabled user who had not opted out, except a user whose
\* own processing failed before the send: that failure has not kept the job
\* from the remaining users.
C24_FridayReachesEveryEnabledUser ==
    out.pc = "returned" =>
        LET attempted == {out.loop.attempts[k].user_id : k \in 1..Len(out.loop.attempts)}
            eligible == out.enabled_at_start \ inp.opted_out
        IN  /\ attempted \subseteq eligible
            /\ eligible \ out.loop.escaped \subseteq attempted

(***************************************************************************)
(* The job callbacks and what they let escape: send_daily and friday_job   *)
(* of src/thebot/bot.py; send_daily, friday_reminder_job and               *)
(* db_maintenance_job of src/improvments/iii.py                            *)
(***************************************************************************)
\* the calls of a callback that can raise
Faults == {"store", "notifications", "quran", "formatter", "send_friendly", "send"}

\* how a callback ends: it returns (having logged an exception or not), or
\* the exception leaves it
ReturnedNormally == [ended |-> "returned", logged |-> FALSE]
Logged == [ended |-> "returned", logged |-> TRUE]
Escaped == [ended |-> "raised", logged |-> FALSE]

\* bot.py send_daily; raises are the calls that raise when made
send_daily_ends(t, uid, file, today, raises) ==
    IF "store" \in raises THEN Escaped
    ELSE IF ~send_daily(t, uid) THEN ReturnedNormally
    ELSE LET r == load_today_or_friendly(get_data(NewLoader, 0, file), today, en) IN
         IF r.friendly # NoText
         THEN (IF "send_friendly" \in raises THEN Escaped ELSE ReturnedNormally)
         ELSE IF "quran" \in raises \/ "formatter" \in raises THEN Escaped
         ELSE ReturnedNormally

\* iii.py send_daily: the whole body is inside try ... except Exception
send_daily_iii_ends(t, uid, file, today, raises) ==
    IF "store" \in raises THEN Logged
    ELSE IF ~send_daily(t, uid) THEN ReturnedNormally
    ELSE IF "notifications" \in raises THEN Logged
    ELSE LET r == load_today_or_friendly_iii(load_latest(file), today, en) IN
         IF r.friendly # NoText
         THEN (IF "send_friendly" \in raises THEN Logged ELSE ReturnedNormally)
         ELSE IF "formatter" \in raises \/ "quran" \in raises \/ "send" \in raises
              THEN Logged
         ELSE ReturnedNormally

\* bot.py friday_job: list_enabled_users outside any try, the sends inside
friday_job_ends(raises) == IF "store" \in raises THEN Escaped ELSE ReturnedNormally

\* iii.py friday_reminder_job: the whole body is inside try ... except
friday_reminder_job_ends(raises) ==
    IF "store" \in raises \/ "notifications" \in raises \/ "send" \in raises
    THEN Logged ELSE ReturnedNormally

\* iii.py db_maintenance_job: the whole body is inside try ... except
db_maintenance_job_ends(raises) == IF "store" \in raises THEN Logged ELSE ReturnedNormally

Callbacks ==
    {"send_daily", "send_daily_iii", "friday_job", "friday_reminder_job",
     "db_maintenance_job"}

\* inp: the callback, the user's row, the feed file, the calls that raise
JobsInit ==
    /\ inp \in [job : Callbacks, row : {"none", "off", "on"}, file : LoaderFiles,
                raises : SUBSET Faults]
    /\ out = [done |-> FALSE, ends |-> ReturnedNormally]
    /\ user_prefs = {}
    /\ jobs = NoJobs
    /\ daily = [u \in Users |-> Idle]
    /\ startup_errors = {}
    /\ last = [user |-> 0, reply |-> "(none)"]

\* the job queue calls the callback
JobRun ==
    /\ ~out.done
    /\ LET t == IF inp.row = "none" THEN {} ELSE {RecipientRow(1, inp.row = "on")}
           today == "2026-03-01"
       IN  out' = [done |-> TRUE,
                   ends |-> CASE inp.job = "send_daily" ->
                                     send_daily_ends(t, 1, inp.file, today, inp.raises)
                              [] inp.job = "send_daily_iii" ->
                                     send_daily_iii_ends(t, 1, inp.file, today, inp.raises)
                              [] inp.job = "friday_job" -> friday_job_ends(inp.raises)
                              [] inp.job = "friday_reminder_job" ->
                                     friday_reminder_job_ends(inp.raises)
                              [] inp.job = "db_maintenance_job" ->
                                     db_maintenance_job_ends(inp.raises)]
    /\ UNCHANGED <<user_prefs, jobs, daily, startup_errors, last, inp>>

SpecJobs == JobsInit /\ [][JobRun]_vars

\* C25: whatever the store, the feed loader, the formatter or a send raises,
\* the send of the friendly not-available message included, a job callback
\* returns normally.
C25_NoJobExceptionEscapes ==
    out.done => out.ends.ended = "returned"

(***************************************************************************)
(* The feedback conversation of src/improvments/iii.py: feedback_cmd, the  *)
(* FEEDBACK and FEEDBACK_TYPE:<category> buttons, handle_feedback_message  *)
(* (registered for every text message that is not a command).              *)
(* FeedbackManager (feedback.py) is imported by iii.py; add_feedback       *)
(* inserts one new record.                                                 *)
(***************************************************************************)
Categories == {"bug", "feature", "suggestion", "other"}

\* context.user_data of a user who has none of the keys
NoUserData == [feedback_step |-> "None", feedback_type |-> "None"]

\* FeedbackManager.add_feedback
add_feedback(feedback, user_id, message, feedback_type) ==
    Append(feedback, [user_id |-> user_id, message |-> message,
                      feedback_type |-> feedback_type])

\* handle_feedback_message: user_data.get("feedback_type", "other"),
\* add_feedback, both keys popped, the thanks
handle_feedback_message(user_data, feedback, user_id, message) ==
    [user_data |-> NoUserData,
     feedback |-> add_feedback(feedback, user_id, message,
                               IF user_data.feedback_type = "None" THEN "other"
                               ELSE user_data.feedback_type),
     reply |-> "feedback_thanks"]

\* inp: the latest plain-text message (from whom, with what user_data); out:
\* context.user_data of every user and the feedback records
FeedbackInit ==
    /\ inp = [user |-> 0, was |-> NoUserData, stored |-> FALSE]
    /\ out = [user_data |-> [u \in Users |-> NoUserData], feedback |-> <<>>]
    /\ user_prefs = {}
    /\ jobs = NoJobs
    /\ daily = [u \in Users |-> Idle]
    /\ startup_errors = {}
    /\ last = [user |-> 0, reply |-> "(none)"]

\* /feedback, or the FEEDBACK button
FeedbackCmd(u) ==
    /\ out' = [out EXCEPT !.user_data[u].feedback_step = "select_type"]
    /\ inp' = [user |-> 0, was |-> NoUserData, stored |-> FALSE]
    /\ UNCHANGED <<user_prefs, jobs, daily, startup_errors, last>>

\* a FEEDBACK_TYPE:<category> button
FeedbackType(u) ==
    /\ \E c \in Categories :
          out' = [out EXCEPT !.user_data[u] =
                     [feedback_step |-> "enter_message", feedback_type |-> c]]
    /\ inp' = [user |-> 0, was |-> NoUserData, stored |-> FALSE]
    /\ UNCHANGED <<user_prefs, jobs, daily, startup_errors, last>>

\* a text message that is not a command
PlainText(u) ==
    /\ Len(out.feedback) < MaxFeedback
    /\ \E message \in {"salam", "thanks"} :
          LET r == handle_feedback_message(out.user_data[u], out.feedback, u, message) IN
          /\ out' = [user_data |-> [out.user_data EXCEPT ![u] = r.user_data],
                     feedback |-> r.feedback]
          /\ inp' = [user |-> u, was |-> out.user_data[u],
                     stored |-> Len(r.feedback) > Len(out.feedback)]
    /\ UNCHANGED <<user_prefs, jobs, daily, startup_errors, last>>

NextFeedback == \E u \in Users : FeedbackCmd(u) \/ FeedbackType(u) \/ PlainText(u)

SpecFeedback == FeedbackInit /\ [][NextFeedback]_vars

\* C26: a plain-text message is stored as feedback only when its sender had
\* pending feedback state from a category selection; it is then stored once,
\* with the selected category, and the state is cleared.
C26_FeedbackOnlyWhenPending ==
    inp.user # 0 =>
        LET pending == inp.was.feedback_step = "enter_message" IN
        /\ inp.stored <=> pending
        /\ pending =>
              /\ out.feedback[Len(out.feedback)].feedback_type = inp.was.feedback_type
              /\ out.user_data[inp.user] = NoUserData

(***************************************************************************)
(* Notification settings in the jobs of src/improvments/iii.py.            *)
(* NotificationManager.get_settings (notification.py) returns the user's   *)
(* record, creating it with both categories enabled when it is absent.     *)
(***************************************************************************)
\* no settings row has been written for the user
NoSettings == [written |-> FALSE, enable_prayer_times |-> FALSE, enable_friday_reminder |-> FALSE]

Settings(p, f) == [written |-> TRUE, enable_prayer_times |-> p, enable_friday_reminder |-> f]

\* NotificationManager.get_settings: the table afterwards; the record
\* returned is the user's entry of it
get_settings(settings, user_id) ==
    IF settings[user_id].written THEN settings
    ELSE [settings EXCEPT ![user_id] = Settings(TRUE, TRUE)]

\* send_daily that reads the settings and sends whatever they say
send_daily_gate_unchecked(t, settings, user_id) ==
    IF ~send_daily(t, user_id) THEN [settings |-> settings, sends |-> FALSE]
    ELSE [settings |-> get_settings(settings, user_id), sends |-> TRUE]

\* iii.py send_daily up to "lang = ...": the settings table afterwards and
\* whether the callback goes on to send (the day's message or the friendly
\* one)
send_daily_gate(t, settings, user_id) ==
    IF ~send_daily(t, user_id) THEN [settings |-> settings, sends |-> FALSE]
    ELSE LET after == get_settings(settings, user_id) IN
         [settings |-> after, sends |-> after[user_id].enable_prayer_times]

\* iii.py friday_reminder_job, the iteration for one listed user
friday_gate(settings, user_id) ==
    LET after == get_settings(settings, user_id) IN
    [settings |-> after, sends |-> after[user_id].enable_friday_reminder]

SettingsValues == {NoSettings} \cup {Settings(p, f) : p, f \in BOOLEAN}

\* inp: the latest job run (which job, for whom, the user's settings before
\* it, whether it went on to send); out: the notification settings table
NotifyInit ==
    /\ user_prefs \in RecipientTables
    /\ out \in [Recipients -> SettingsValues]
    /\ inp = [job |-> "none", user |-> 0, had |-> NoSettings, sends |-> FALSE]
    /\ jobs = NoJobs
    /\ daily = [u \in Users |-> Idle]
    /\ startup_errors = {}
    /\ last = [user |-> 0, reply |-> "(none)"]

\* the user's daily job fires
NotifyDaily(u) ==
    LET r == send_daily_gate(user_prefs, out, u) IN
    /\ out' = r.settings
    /\ inp' = [job |-> "send_daily", user |-> u, had |-> out[u], sends |-> r.sends]
    /\ UNCHANGED <<user_prefs, jobs, daily, startup_errors, last>>

\* the Friday job reaches the user, who is among the enabled users
NotifyFriday(u) ==
    /\ u \in EnabledNow
    /\ LET r == friday_gate(out, u) IN
       /\ out' = r.settings
       /\ inp' = [job |-> "friday_reminder_job", user |-> u, had |-> out[u],
                  sends |-> r.sends]
    /\ UNCHANGED <<user_prefs, jobs, daily, startup_errors, last>>

NextNotify == \E u \in Recipients : NotifyDaily(u) \/ NotifyFriday(u)

SpecNotify == NotifyInit /\ [][NextNotify]_vars

\* C27: the daily job goes on to send exactly when the user is enabled and
\* the user's settings, if ever written, have enable_prayer_times true; a user
\* whose settings were never written counts as having both categories
\* enabled, for the daily job and for the Friday reminder.
C27_OptOutSuppressesDaily ==
    /\ inp.job = "send_daily" =>
          (inp.sends <=> /\ inp.user \in EnabledNow
                         /\ (inp.had.written => inp.had.enable_prayer_times))
    /\ inp.job = "friday_reminder_job" =>
          (inp.sends <=> (inp.had.written => inp.had.enable_friday_reminder))
    /\ (inp.job # "none" /\ inp.user \in EnabledNow /\ ~inp.had.written) =>
          out[inp.user] = Settings(TRUE, TRUE)

\* C27 witness: the daily job of an enabled user whose enable_prayer_times is
\* false ran and sent nothing.
C27_Witness ==
    /\ inp.job = "send_daily"
    /\ inp.user \in EnabledNow
    /\ inp.had = Settings(FALSE, TRUE)
    /\ ~inp.sends

(***************************************************************************)
(* Settings requests: time_cmd and the TIME branch of on_button,           *)
(* src/thebot/bot.py (the same tests in src/improvments/iii.py)            *)
(***************************************************************************)
\* the tables with at most one row per user: any language column, enabled
\* or not, a time or none
SettingsTables ==
    { {[user_id |-> u, chat_id |-> 1, time_hhmm |-> f[u].time_hhmm,
        enabled |-> f[u].enabled, language |-> f[u].language] :
          u \in {v \in Users : f[v].present}} :
        f \in [Users -> [present : BOOLEAN, time_hhmm : {NULL, t0815},
                         enabled : BOOLEAN, language : {NULL, en, ar}]] }

\* inp: the latest settings request (by command or button, the user's rows
\* before it); last: the user and the reply
SettingsInit ==
    /\ user_prefs \in SettingsTables
    /\ inp = [via |-> "none", had |-> {}]
    /\ out = <<>>
    /\ jobs = NoJobs
    /\ daily = [u \in Users |-> Idle]
    /\ startup_errors = {}
    /\ last = [user |-> 0, reply |-> "(none)"]

\* /time
TimeCmd(u) ==
    /\ last' = [user |-> u, reply |-> time_cmd(user_prefs, jobs, u).reply]
    /\ inp' = [via |-> "/time", had |-> RowsOf(user_prefs, u)]
    /\ UNCHANGED <<user_prefs, jobs, daily, startup_errors, out>>

\* the TIME button
TimeButton(u) ==
    /\ \E c \in Chats :
          last' = [user |-> u,
                   reply |-> on_button(user_prefs, jobs, u, c,
                                       [tag |-> "TIME", arg |-> <<>>], FALSE).reply]
    /\ inp' = [via |-> "TIME", had |-> RowsOf(user_prefs, u)]
    /\ UNCHANGED <<user_prefs, jobs, daily, startup_errors, out>>

NextSettings == \E u \in Users : TimeCmd(u) \/ TimeButton(u)

SpecSettings == SettingsInit /\ [][NextSettings]_vars

\* C28: a settings request, by /time or by the TIME button, from a user who
\* has no stored record is answered with the no-settings message.
C28_NoRecordGetsNoSettings ==
    (inp.via # "none" /\ inp.had = {}) => last.reply = "no_settings"

(***************************************************************************)
(* A failed edit of the message under a button: error_handler of           *)
(* src/thebot/bot.py and safe_edit_message of src/improvments/iii.py       *)
(***************************************************************************)
\* what edit_message_text did: nothing raised, or an exception that is a
\* BadRequest or not and whose text holds "Message is not modified" or not
NoError == [raised |-> FALSE, bad_request |-> FALSE, not_modified |-> FALSE]

EditErrors ==
    {[raised |-> TRUE, bad_request |-> b, not_modified |-> m] : b, m \in BOOLEAN}

Quiet == [logged |-> FALSE, admin |-> FALSE, error_reply |-> FALSE]

\* an error handler without the filter
error_handler_unfiltered(error, admin_id) ==
    [logged |-> TRUE, admin |-> admin_id # NULL, error_reply |-> FALSE]

\* bot.py error_handler: the filter, logger.error, the message to the admin
error_handler(error, admin_id) ==
    IF error.bad_request /\ error.not_modified THEN Quiet
    ELSE [logged |-> TRUE, admin |-> admin_id # NULL, error_reply |-> FALSE]

\* iii.py safe_edit_message: TRUE when the exception is raised again
safe_edit_message(error) ==
    error.raised /\ ~(error.bad_request /\ error.not_modified)

\* what follows the edit of a button handler
after_edit(gen, error, admin_id) ==
    IF gen = "bot"
    THEN (IF error.raised THEN error_handler(error, admin_id) ELSE Quiet)
    ELSE (IF safe_edit_message(error)
          THEN [logged |-> TRUE, admin |-> FALSE, error_reply |-> FALSE]
          ELSE Quiet)

EditButtons == ButtonData({"TIME", "STOP", "NOW"}, {en}, {t0815})

\* inp: the program and ADMIN_ID; out: the latest button (who, which, whether
\* the user had a language, what the edit raised, what followed)
EditInit ==
    /\ inp \in [gen : {"bot", "iii"}, admin_id : {NULL, str_int(1)}]
    /\ out = [user |-> 0, data |-> [tag |-> "none", arg |-> <<>>], had_lang |-> FALSE,
              error |-> NoError, then |-> Quiet]
    /\ user_prefs = {}
    /\ jobs = NoJobs
    /\ daily = [u \in Users |-> Idle]
    /\ startup_errors = {}
    /\ last = [user |-> 0, reply |-> "(none)"]

\* on_button: the branch of the token runs, its last call is the edit
EditButton(u) ==
    \E d \in EditButtons, error \in {NoError} \cup EditErrors :
        LET r == on_button(user_prefs, jobs, u, 1, d, FALSE) IN
        /\ user_prefs' = r.prefs
        /\ jobs' = r.jobs
        /\ last' = [user |-> u, reply |-> r.reply]
        /\ out' = [user |-> u, data |-> d,
                   had_lang |-> lang_or_prompt(user_prefs, u) # NULL,
                   error |-> error, then |-> after_edit(inp.gen, error, inp.admin_id)]
        /\ UNCHANGED <<daily, startup_errors, inp>>

NextEdit == \E u \in Users : EditButton(u)

SpecEdit == EditInit /\ [][NextEdit]_vars

\* C29: after an edit that raised the "message is not modified" BadRequest
\* nothing is logged, nothing is sent to the admin and no error reply goes to
\* the user, and what the handler did before the edit stands: STOP has
\* disabled the user and removed the jobs, PRESET has stored the time and
\* scheduled the job, LANG has stored the language.
C29_NotModifiedIsSilent ==
    (out.error.raised /\ out.error.bad_request /\ out.error.not_modified) =>
        /\ out.then = Quiet
        /\ (out.data.tag = "STOP" /\ out.had_lang) =>
              (~Enabled(out.user) /\ JobsOf(out.user) = <<>>)
        /\ (out.data.tag = "PRESET:" /\ out.had_lang) =>
              /\ Enabled(out.user)
              /\ get_user(user_prefs, out.user).time_hhmm = t0815
              /\ JobsOf(out.user) = <<JobAt(out.user, t0815)>>
        /\ out.data.tag = "LANG:" => get_user(user_prefs, out.user).language = en

\* C29 witness: the STOP button of a user with a scheduled job, whose edit
\* raised "message is not modified" under bot.py with ADMIN_ID set.
C29_Witness ==
    /\ inp.gen = "bot" /\ inp.admin_id # NULL
    /\ out.data.tag = "STOP" /\ out.had_lang
    /\ out.error = [raised |-> TRUE, bad_request |-> TRUE, not_modified |-> TRUE]
    /\ get_user(user_prefs, out.user).time_hhmm = t0815
    /\ ~Enabled(out.user)

(***************************************************************************)
(* Schema generations of the preference store: _init_db and get_user of    *)
(* "src/zarchived abotaya/storage.py" opening a file that                  *)
(* src/bot/old.version1.storage.py or src/bot/storage.py created.  A       *)
(* database is the columns of table user_prefs, in order, and its rows; a  *)
(* row has one field per column.                                           *)
(***************************************************************************)
\* a file without the table
NoTable == [columns |-> <<>>, rows |-> {}]

\* CREATE TABLE IF NOT EXISTS user_prefs (...)
create_table(db, columns) == IF db.columns = <<>> THEN [columns |-> columns, rows |-> {}] ELSE db

\* old.version1.storage.py _init_db
init_db_v1(db) ==
    create_table(db, <<"user_id", "chat_id", "time_hhmm", "timezone", "enabled">>)

\* src/bot/storage.py _init_db
init_db_v2(db) == create_table(db, <<"user_id", "chat_id", "time_hhmm", "enabled">>)

\* ALTER TABLE user_prefs ADD COLUMN language TEXT: "duplicate column name"
\* when the column exists, else the column is appended, NULL in every row
add_column(db, column) ==
    IF column \in Range(db.columns) THEN [raised |-> TRUE, db |-> db]
    ELSE [raised |-> FALSE,
          db |-> [columns |-> Append(db.columns, column),
                  rows |-> {r @@ [c \in {column} |-> NULL] : r \in db.rows}]]

\* _init_db without the migration
init_db_no_migration(db) ==
    [raised |-> FALSE,
     db |-> create_table(db, <<"user_id", "chat_id", "time_hhmm", "enabled", "language">>)]

\* "zarchived abotaya/storage.py" _init_db
init_db(db) ==
    LET con == create_table(db, <<"user_id", "chat_id", "time_hhmm", "enabled", "language">>)
    IN  IF "language" \notin Range(con.columns)
        THEN add_column(con, "language")
        ELSE [raised |-> FALSE, db |-> con]

NoUserPrefs ==
    [user_id |-> 0, chat_id |-> 0, time_hhmm |-> NULL, enabled |-> FALSE, language |-> NULL]

\* "zarchived abotaya/storage.py" get_user: SELECT user_id, chat_id,
\* time_hhmm, enabled, language ("no such column" when one is missing)
get_user_row(db, user_id) ==
    IF ~({"user_id", "chat_id", "time_hhmm", "enabled", "language"} \subseteq Range(db.columns))
    THEN [raised |-> TRUE, found |-> FALSE, prefs |-> NoUserPrefs]
    ELSE IF \A r \in db.rows : r.user_id # user_id
    THEN [raised |-> FALSE, found |-> FALSE, prefs |-> NoUserPrefs]
    ELSE LET row == CHOOSE r \in db.rows : r.user_id = user_id IN
         [raised |-> FALSE, found |-> TRUE,
          prefs |-> [user_id |-> row.user_id, chat_id |-> row.chat_id,
                     time_hhmm |-> row.time_hhmm, enabled |-> row.enabled,
                     language |-> row.language]]

\* the rows the three generations write for a user
RowsV1(u) ==
    {[user_id |-> u, chat_id |-> 1, time_hhmm |-> h, timezone |-> "UTC", enabled |-> b] :
        h \in {NULL, t0815}, b \in BOOLEAN}

RowsV2(u) ==
    {[user_id |-> u, chat_id |-> 1, time_hhmm |-> h, enabled |-> b] :
        h \in {NULL, t0815}, b \in BOOLEAN}

RowsV3(u) ==
    {[user_id |-> u, chat_id |-> 1, time_hhmm |-> h, enabled |-> b, language |-> l] :
        h \in {NULL, t0815}, b \in BOOLEAN, l \in {NULL, en}}

\* the tables with at most one row per user, the rows drawn from R
TablesOf(R(_)) ==
    LET choice(u) == {{}} \cup {{r} : r \in R(u)}
        choices == {f \in [Users -> UNION {choice(u) : u \in Users}] :
                       \A u \in Users : f[u] \in choice(u)}
    IN  {UNION {f[u] : u \in Users} : f \in choices}

\* the files an earlier run of some generation has left
StoreFiles ==
    {NoTable}
    \cup {[columns |-> init_db_v1(NoTable).columns, rows |-> T] : T \in TablesOf(RowsV1)}
    \cup {[columns |-> init_db_v2(NoTable).columns, rows |-> T] : T \in TablesOf(RowsV2)}
    \cup {[columns |-> init_db(NoTable).db.columns, rows |-> T] : T \in TablesOf(RowsV3)}

NotRead == [done |-> FALSE, user |-> 0, raised |-> FALSE, found |-> FALSE, prefs |-> NoUserPrefs]

\* inp: the file as the earlier run left it; out: the file now, whether
\* Storage(db_path) has been constructed and raised, and the latest get_user
MigrateInit ==
    /\ inp \in StoreFiles
    /\ out = [db |-> inp, opened |-> FALSE, raised |-> FALSE, read |-> NotRead]
    /\ user_prefs = {}
    /\ jobs = NoJobs
    /\ daily = [u \in Users |-> Idle]
    /\ startup_errors = {}
    /\ last = [user |-> 0, reply |-> "(none)"]

\* Storage(db_path)
OpenStore ==
    /\ ~out.opened
    /\ LET r == init_db(out.db) IN
       out' = [out EXCEPT !.db = r.db, !.opened = TRUE, !.raised = r.raised]
    /\ UNCHANGED <<user_prefs, jobs, daily, startup_errors, last, inp>>

\* storage.get_user(u)
ReadUser(u) ==
    /\ out.opened /\ ~out.raised
    /\ LET r == get_user_row(out.db, u) IN
       out' = [out EXCEPT !.read = [done |-> TRUE, user |-> u, raised |-> r.raised,
                                    found |-> r.found, prefs |-> r.prefs]]
    /\ UNCHANGED <<user_prefs, jobs, daily, startup_errors, last, inp>>

NextMigrate == OpenStore \/ \E u \in Users : ReadUser(u)

SpecMigrate == MigrateInit /\ [][NextMigrate]_vars

\* the row restricted to the columns cols
Restrict(r, cols) == [c \in Range(cols) |-> r[c]]

\* C30: constructing the store on a file that an older schema generation
\* left does not raise; every old column is still there, under its name and
\* in its place, the missing column is added, and every old row is there with
\* its old values; a later read of an old row does not raise and gives the
\* old values, with None for the language the old schema did not have.
C30_OldSchemaOpensAndReads ==
    /\ out.opened =>
          /\ ~out.raised
          /\ SubSeq(out.db.columns, 1, Len(inp.columns)) = inp.columns
          /\ "language" \in Range(out.db.columns)
          /\ Cardinality(out.db.rows) = Cardinality(inp.rows)
          /\ inp.columns # <<>> =>
                {Restrict(r, inp.columns) : r \in out.db.rows} = inp.rows
    /\ out.read.done =>
          /\ ~out.read.raised
          /\ out.read.found <=> \E r \in inp.rows : r.user_id = out.read.user
          /\ \A r \in inp.rows :
                r.user_id = out.read.user =>
                    /\ out.read.prefs.chat_id = r.chat_id
                    /\ out.read.prefs.time_hhmm = r.time_hhmm
                    /\ out.read.prefs.enabled = r.enabled
                    /\ out.read.prefs.language =
                          IF "language" \in Range(inp.columns) THEN r.language ELSE NULL

\* C30 witness: a file of the first generation (with a timezone column and no
\* language column) holding a row was opened, and the row was read with
\* language None.
C30_Witness ==
    /\ "timezone" \in Range(inp.columns)
    /\ "language" \notin Range(inp.columns)
    /\ out.opened
    /\ "timezone" \in Range(out.db.columns)
    /\ out.read.done /\ out.read.found
    /\ out.read.prefs.language = NULL
    /\ out.read.prefs.time_hhmm = t0815

(***************************************************************************)
(* The translation lookup tr(lang, key) on its own, in both generations    *)
(***************************************************************************)
\* The keys of one catalog of I18N: the three catalogs of a generation hold
\* the same keys (29 in bot.py, 38 in iii.py), of which the model keeps three
CatalogKeys == {"no_data", "help", "choose_lang"}

\* I18N: language code -> the keys its catalog translates
I18N == [l \in SUPPORTED_LANGS |-> CatalogKeys]

\* The text a catalog holds for one of its keys
Entry(lang, key) == [kind |-> "entry", lang |-> lang, key |-> key]

\* f"[{key}]"
Placeholder(key) == [kind |-> "literal", text |-> "[" \o key \o "]"]

\* tr of src/thebot/bot.py: I18N.get(lang, I18N["en"])[key]; the subscript
\* raises KeyError for a key the chosen catalog does not hold
tr_bot(lang, key) ==
    LET catalog == IF lang \in DOMAIN I18N THEN lang ELSE en IN
    IF key \in I18N[catalog]
    THEN [raised |-> FALSE, value |-> Entry(catalog, key)]
    ELSE [raised |-> TRUE, value |-> "KeyError"]

\* tr of src/improvments/iii.py: if lang not in I18N: lang = "en";
\* I18N[lang].get(key, f"[{key}]")
tr_iii(lang, key) ==
    LET catalog == IF lang \in DOMAIN I18N THEN lang ELSE en IN
    IF key \in I18N[catalog]
    THEN [raised |-> FALSE, value |-> Entry(catalog, key)]
    ELSE [raised |-> FALSE, value |-> Placeholder(key)]

\* Language codes handed to tr: every text of at most two of these letters,
\* the three supported codes and unknown ones ("de", "", "e") among them
LangLetters == {"e", "n", "a", "r", "u", "d"}

LangCodes == {<<>>} \cup {<<a>> : a \in LangLetters}
                 \cup {<<a, b>> : a \in LangLetters, b \in LangLetters}

\* Keys handed to tr: the catalog's and two it does not hold
TrKeys == CatalogKeys \cup {"nope", ""}

TrInit ==
    /\ inp \in [lang : LangCodes, key : TrKeys]
    /\ out = [done |-> FALSE]
    /\ user_prefs = {}
    /\ jobs = NoJobs
    /\ daily = [u \in Users |-> Idle]
    /\ startup_errors = {}
    /\ last = [user |-> 0, reply |-> "(none)"]

\* A handler of bot.py calls tr
TrBot ==
    /\ ~out.done
    /\ out' = [done |-> TRUE, by |-> "bot", res |-> tr_bot(inp.lang, inp.key)]
    /\ UNCHANGED <<user_prefs, jobs, daily, startup_errors, last, inp>>

\* A handler of iii.py calls tr
TrIii ==
    /\ ~out.done
    /\ out' = [done |-> TRUE, by |-> "iii", res |-> tr_iii(inp.lang, inp.key)]
    /\ UNCHANGED <<user_prefs, jobs, daily, startup_errors, last, inp>>

NextTr == TrBot \/ TrIii

SpecTr == TrInit /\ [][NextTr]_vars

\* C31, as claimed: tr(lang, key) never fails; a known key is answered from
\* the catalog of lang, from the English catalog when lang is unknown, and a
\* key the catalog lacks is answered by the bracketed placeholder "[key]".
C31_TrNeverFails ==
    out.done =>
        /\ ~out.res.raised
        /\ out.res.value =
              IF inp.key \in CatalogKeys
              THEN Entry(IF inp.lang \in SUPPORTED_LANGS THEN inp.lang ELSE en, inp.key)
              ELSE Placeholder(inp.key)

(***************************************************************************)
(* The job queue against the store: handlers, the maintenance job and      *)
(* restarts, with a scheduler that does not fail                           *)
(***************************************************************************)
\* Storage.cleanup_inactive_users(days): removes the rows of users who are
\* disabled or inactive beyond the window.  inactive: the users whose last
\* activity is older than the window.
cleanup_inactive_users(t, inactive) ==
    {r \in t : r.enabled /\ r.user_id \notin inactive}

\* db_maintenance_job of iii.py: storage.cleanup_inactive_users(days=
\* DB_CLEANUP_DAYS), feedback_manager.delete_old_feedback(days=180); the
\* job queue is not touched
db_maintenance_job(t, js, inactive) ==
    Result(cleanup_inactive_users(t, inactive), js, "(maintenance)")

\* main's restore loop on a cold queue, run_daily not failing
restored(t) == restore_jobs(list_enabled_users(t), NoJobs, t, {}).jobs

\* /settime and PRESET with 08:15 or 21:00
SyncSetTime(u) ==
    \E a \in {t0815, t2100} :
        \/ Apply(settime(user_prefs, jobs, u, 1, <<a>>, FALSE), u)
        \/ Apply(on_button(user_prefs, jobs, u, 1, [tag |-> "PRESET:", arg |-> a], FALSE), u)

\* /stop and STOP
SyncStop(u) ==
    \/ Apply(stop(user_prefs, jobs, u), u)
    \/ Apply(on_button(user_prefs, jobs, u, 1, [tag |-> "STOP", arg |-> <<>>], FALSE), u)

\* /start, /language and the LANG:<code> button
SyncLanguage(u) ==
    \/ Apply(start(user_prefs, jobs, u, 1), u)
    \/ Apply(language_cmd(user_prefs, jobs, u, 1), u)
    \/ \E l \in LangArgs :
          Apply(on_button(user_prefs, jobs, u, 1, [tag |-> "LANG:", arg |-> l], FALSE), u)

\* The maintenance job runs (daily at 02:00)
DbMaintenance ==
    \E inactive \in SUBSET Users :
        LET r == db_maintenance_job(user_prefs, jobs, inactive) IN
        /\ r.prefs # user_prefs
        /\ user_prefs' = r.prefs
        /\ jobs' = r.jobs
        /\ last' = [user |-> 0, reply |-> r.reply]
        /\ UNCHANGED <<daily, startup_errors, inp, out>>

\* The process is restarted
SyncRestart ==
    /\ jobs' = restored(user_prefs)
    /\ last' = [user |-> 0, reply |-> "(started)"]
    /\ UNCHANGED <<user_prefs, daily, startup_errors, inp, out>>

NextSync ==
    \/ \E u \in Users : SyncSetTime(u)
    \/ \E u \in Users : SyncStop(u)
    \/ \E u \in Users : SyncLanguage(u)
    \/ DbMaintenance
    \/ SyncRestart

SpecSync == Init /\ [][NextSync]_vars

\* C32, as claimed: between handlers and jobs a user has a daily_{user_id}
\* job exactly when the stored record exists, is enabled and has a time, so
\* a restart rebuilds the very jobs that existed before it; also after a
\* stopped user chose a language and after the maintenance job removed rows.
C32_JobsMirrorStore ==
    /\ \A u \in Users :
          (JobsOf(u) # <<>>) <=>
              (Enabled(u) /\ ~Falsy(get_user(user_prefs, u).time_hhmm))
    /\ restored(user_prefs) = jobs

(***************************************************************************)
(* Handlers cut at their awaits: each step is the code a handler runs      *)
(* between two suspension points, and steps of different handlers, of the  *)
(* restart and of any observer interleave freely                           *)
(***************************************************************************)
\* A handler that is not running
Returned0 == [pc |-> "idle", pending |-> <<>>, data |-> <<>>]

\* A handler suspended in its last await, the reply: pending lists the
\* store and queue work it still has to do after it (none in the code)
AtReply(pending) == [pc |-> "reply", pending |-> pending, data |-> <<>>]

\* on_button suspended in await query.answer(), its first statement
AtAnswer(data) == [pc |-> "answer", pending |-> <<>>, data |-> data]

\* settime with an await between storage.set_time and _schedule_user
settime_awaits_between(t, js, uid, cid, args, fails) ==
    LET r == settime(t, js, uid, cid, args, fails) IN
    [prefs |-> r.prefs, jobs |-> js, reply |-> r.reply,
     frame |-> AtReply(IF r.jobs # js THEN <<"schedule">> ELSE <<>>)]

\* settime from its entry to its first await: the awaits of settime are its
\* replies (499, 503, 510, 515), each the last statement of its path
settime_to_await(t, js, uid, cid, args, fails) ==
    LET r == settime(t, js, uid, cid, args, fails) IN
    [prefs |-> r.prefs, jobs |-> r.jobs, reply |-> r.reply, frame |-> AtReply(<<>>)]

\* stop from its entry to its only await, the reply (546)
stop_to_await(t, js, uid) ==
    LET r == stop(t, js, uid) IN
    [prefs |-> r.prefs, jobs |-> r.jobs, reply |-> r.reply, frame |-> AtReply(<<>>)]

\* on_button from the return of query.answer() (633) to its next await, the
\* edit_message_text that ends each branch
on_button_to_await(t, js, uid, cid, data, fails) ==
    LET r == on_button(t, js, uid, cid, data, fails) IN
    [prefs |-> r.prefs, jobs |-> r.jobs, reply |-> r.reply, frame |-> AtReply(<<>>)]

AtomicInit ==
    /\ user_prefs = {}
    /\ jobs = NoJobs
    /\ daily = [u \in Users |-> Idle]
    /\ startup_errors = {}
    /\ last = [user |-> 0, reply |-> "(started)"]
    /\ inp = <<>>
    /\ out = [u \in Users |-> Returned0]

\* A handler of user u ran from one await to the next
Ran(u, r) ==
    /\ user_prefs' = r.prefs
    /\ jobs' = r.jobs
    /\ last' = [user |-> u, reply |-> r.reply]
    /\ out' = [out EXCEPT ![u] = r.frame]
    /\ UNCHANGED <<daily, startup_errors, inp>>

\* /settime arrives and runs to its reply
AtomicSetTime(u) ==
    /\ out[u].pc = "idle"
    /\ \E a \in {t0815, t2100}, f \in BOOLEAN :
          Ran(u, settime_to_await(user_prefs, jobs, u, 1, <<a>>, f))

\* /stop arrives and runs to its reply
AtomicStop(u) ==
    /\ out[u].pc = "idle"
    /\ Ran(u, stop_to_await(user_prefs, jobs, u))

\* A button is pressed: on_button starts and waits in query.answer()
AtomicPress(u) ==
    /\ out[u].pc = "idle"
    /\ \E d \in ButtonData({"STOP"}, {en}, {t0815, t2100}) :
          out' = [out EXCEPT ![u] = AtAnswer(d)]
    /\ last' = [user |-> u, reply |-> "(answer)"]
    /\ UNCHANGED <<user_prefs, jobs, daily, startup_errors, inp>>

\* query.answer() returned: on_button runs to its edit_message_text
AtomicButton(u) ==
    /\ out[u].pc = "answer"
    /\ \E f \in BOOLEAN :
          Ran(u, on_button_to_await(user_prefs, jobs, u, 1, out[u].data, f))

\* The reply was sent: the handler goes on with what it has left, or returns
AtomicResume(u) ==
    /\ out[u].pc = "reply"
    /\ IF out[u].pending = <<>>
       THEN /\ out' = [out EXCEPT ![u] = Returned0]
            /\ UNCHANGED <<user_prefs, jobs, last>>
       ELSE /\ jobs' = schedule_user(jobs, user_prefs, u, FALSE).jobs
            /\ last' = [user |-> u, reply |-> "(resumed)"]
            /\ out' = [out EXCEPT ![u] = AtReply(Tail(out[u].pending))]
            /\ UNCHANGED user_prefs
    /\ UNCHANGED <<daily, startup_errors, inp>>

\* The process is restarted while no handler runs
AtomicRestart ==
    /\ \A u \in Users : out[u].pc = "idle"
    /\ Main

NextAtomic ==
    \/ \E u \in Users : AtomicSetTime(u)
    \/ \E u \in Users : AtomicStop(u)
    \/ \E u \in Users : AtomicPress(u)
    \/ \E u \in Users : AtomicButton(u)
    \/ \E u \in Users : AtomicResume(u)
    \/ AtomicRestart

SpecAtomic == AtomicInit /\ [][NextAtomic]_vars

\* C33: at every point where another handler or a job callback can run, that
\* is between any two steps, a user's job is the job of the stored time and
\* belongs to an enabled record: nobody sees a new stored time with the old
\* job, or a disabled user with a live job.
C33_WriteAndJobChangeTogether ==
    \A u \in Users :
        JobsOf(u) # <<>> =>
            /\ Enabled(u)
            /\ JobsOf(u) = <<JobAt(u, get_user(user_prefs, u).time_hhmm)>>

\* C33 witness: while the handler of another user is suspended, a user has
\* just stored 21:00 and is suspended in the reply of that handler, already
\* holding the job of 21:00.
C33_Witness ==
    \E u \in Users, v \in Users :
        /\ u # v
        /\ out[v].pc # "idle"
        /\ out[u].pc = "reply"
        /\ last = [user |-> u, reply |-> "ok_daily"]
        /\ get_user(user_prefs, u).time_hhmm = t2100
        /\ JobsOf(u) = <<JobAt(u, t2100)>>

(***************************************************************************)
(* The recipients of a run (broadcast or Friday reminder) against /stop    *)
(* and /settime handled while the run sleeps between two sends             *)
(***************************************************************************)
\* a loop over a cursor that is read as the loop goes: the rows enabled now
\* that the run has not visited yet
remaining_live(users, i, t) ==
    LET visited == {users[k].user_id : k \in 1..(i - 1)} IN
    RowsFrom({r \in t : r.enabled /\ r.user_id \notin visited}, 1)

\* users = list(storage.list_enabled_users()); for prefs in users: the rows
\* the loop has still to visit are those of the list made at the start,
\* whatever the store t holds by now (list_enabled_users itself runs
\* fetchall() before its first yield)
remaining(users, i, t) == SubSeq(users, i, Len(users))

\* inp: the run (broadcast_cmd or friday_job); out: where it stands, its
\* loop, the users enabled when the list was read, the users that sent /stop
\* before their turn, the users that were enabled after the list was read
RunInit ==
    /\ user_prefs \in RecipientTables
    /\ inp \in {"broadcast", "friday"}
    /\ out = [pc |-> "idle", loop |-> NewFriday(<<>>), enabled_at_start |-> {},
              stopped |-> {}, joined |-> {}]
    /\ jobs = NoJobs
    /\ daily = [u \in Users |-> Idle]
    /\ startup_errors = {}
    /\ last = [user |-> 0, reply |-> "(none)"]

\* the run starts and reads the list
RunStart ==
    /\ out.pc = "idle"
    /\ out' = [out EXCEPT !.pc = "running",
                          !.loop = NewFriday(list_enabled_users(user_prefs)),
                          !.enabled_at_start = EnabledNow]
    /\ UNCHANGED <<user_prefs, jobs, daily, startup_errors, last, inp>>

\* one iteration: the send, which returns or raises, and the sleep
RunSend ==
    /\ out.pc = "running"
    /\ LET b == out.loop
           rest == remaining(b.users, b.i, user_prefs)
           b1 == [b EXCEPT !.users = SubSeq(b.users, 1, b.i - 1) \o rest]
       IN  /\ rest # <<>>
           /\ \E raised \in BOOLEAN : out' = [out EXCEPT !.loop = friday_one(b1, raised)]
    /\ UNCHANGED <<user_prefs, jobs, daily, startup_errors, last, inp>>

\* the loop is over
RunEnd ==
    /\ out.pc = "running"
    /\ remaining(out.loop.users, out.loop.i, user_prefs) = <<>>
    /\ out' = [out EXCEPT !.pc = "done"]
    /\ UNCHANGED <<user_prefs, jobs, daily, startup_errors, last, inp>>

\* while the run sleeps, an enabled user sends /stop
StopDuring(u) ==
    /\ out.pc = "running"
    /\ HasRow(user_prefs, u) /\ get_user(user_prefs, u).enabled
    /\ user_prefs' = stop(user_prefs, jobs, u).prefs
    /\ out' = [out EXCEPT !.stopped =
                  IF u \in {out.loop.users[k].user_id : k \in out.loop.i..Len(out.loop.users)}
                  THEN @ \cup {u} ELSE @]
    /\ UNCHANGED <<jobs, daily, startup_errors, last, inp>>

\* while the run sleeps, a disabled user who was not listed sets a time and
\* is enabled by it
JoinDuring(u) ==
    /\ out.pc = "running"
    /\ HasRow(user_prefs, u) /\ ~get_user(user_prefs, u).enabled
    /\ u \notin out.enabled_at_start
    /\ user_prefs' = set_time(user_prefs, u, 1, t0815)
    /\ out' = [out EXCEPT !.joined = @ \cup {u}]
    /\ UNCHANGED <<jobs, daily, startup_errors, last, inp>>

NextRun ==
    \/ RunStart
    \/ RunSend
    \/ RunEnd
    \/ \E u \in Recipients : StopDuring(u)
    \/ \E u \in Recipients : JoinDuring(u)

SpecRun == RunInit /\ [][NextRun]_vars

\* the users a run has sent to, or tried to
AttemptedBy(b) == {b.attempts[k].user_id : k \in 1..Len(b.attempts)}

\* C34: the recipients of a run are the users enabled when it read the list:
\* when the run is over it has tried exactly those, each once; a user who
\* sent /stop before the run reached them was still tried, and a user enabled
\* after the list was read was not.
C34_RecipientsFixedAtStart ==
    out.pc = "done" =>
        /\ AttemptedBy(out.loop) = out.enabled_at_start
        /\ Len(out.loop.attempts) = Cardinality(out.enabled_at_start)
        /\ out.stopped \subseteq AttemptedBy(out.loop)
        /\ out.joined \cap AttemptedBy(out.loop) = {}

\* C34 witness: a finished run during which one listed user sent /stop before
\* their turn and is still disabled, yet was tried, and another user was
\* enabled after the start and was not.
C34_Witness ==
    /\ out.pc = "done"
    /\ \E u \in out.stopped : u \notin EnabledNow /\ u \in AttemptedBy(out.loop)
    /\ \E v \in out.joined : v \in EnabledNow /\ v \notin AttemptedBy(out.loop)

(***************************************************************************)
(* The language field: every handler that writes rows, with the code of    *)
(* the last LANG: button kept in inp                                       *)
(***************************************************************************)
\* codes carried by a LANG: callback: the three of the keyboard, one with
\* blanks around it, and codes no keyboard of the bot offers
LangData == {en, ar, ru, <<" ", "r", "u", " ">>, <<"d", "e">>, <<>>, <<"E", "N">>}

\* the LANG:<code> button
LangPress(u) ==
    \E code \in LangData :
        LET r == on_button(user_prefs, jobs, u, 1, [tag |-> "LANG:", arg |-> code], FALSE) IN
        /\ user_prefs' = r.prefs
        /\ jobs' = r.jobs
        /\ last' = [user |-> u, reply |-> "LANG:"]
        /\ inp' = code
        /\ UNCHANGED <<daily, startup_errors, out>>

\* the other handlers that write rows: /start, /language, /settime, PRESET,
\* /stop
LangOther(u) ==
    \/ Apply(start(user_prefs, jobs, u, 1), u)
    \/ Apply(language_cmd(user_prefs, jobs, u, 1), u)
    \/ Apply(settime(user_prefs, jobs, u, 1, <<t0815>>, FALSE), u)
    \/ Apply(on_button(user_prefs, jobs, u, 1, [tag |-> "PRESET:", arg |-> t0815], FALSE), u)
    \/ Apply(stop(user_prefs, jobs, u), u)

NextLang == \E u \in Users : LangPress(u) \/ LangOther(u)

SpecLang == Init /\ [][NextLang]_vars

\* C35: the language field of every stored row is empty (None, no language
\* chosen yet) or one of en, ar, ru, whatever codes LANG: callbacks carried.
C35_StoredLanguageIsSupported ==
    \A r \in user_prefs : r.language = NULL \/ r.language \in SUPPORTED_LANGS

\* C35 witness: a LANG: callback carrying the unsupported code "de" has just
\* run for a user, whose row now holds en.
C35_Witness ==
    \E u \in Users :
        /\ last = [user |-> u, reply |-> "LANG:"]
        /\ inp = <<"d", "e">>
        /\ HasRow(user_prefs, u)
        /\ get_user(user_prefs, u).language = en

(***************************************************************************)
(* /settime <t> against PRESET:<t>: both run from one and the same state   *)
(***************************************************************************)
\* a handler that has not run
NotRun == [prefs |-> {}, jobs |-> NoJobs, reply |-> "(not run)"]

\* inp: the request (user, chat, time, whether run_daily raises), once it is
\* chosen; out: what /settime and what PRESET: made of the state
EquivInit ==
    /\ user_prefs = {}
    /\ jobs = NoJobs
    /\ daily = [u \in Users |-> Idle]
    /\ startup_errors = {}
    /\ last = [user |-> 0, reply |-> "(started)"]
    /\ inp = <<>>
    /\ out = [command |-> NotRun, button |-> NotRun]

\* Before the request: the handlers bring the bot to some state
EquivBefore(u) ==
    /\ inp = <<>>
    /\ \/ Button(u, Chats, ButtonData({"STOP"}, {en}, {t0815}))
       \/ Stop(u)
       \/ SetTime(u, Chats, {<<t0815>>})

\* The request: a user with a language on file, a chat and a valid time
EquivRequest ==
    /\ inp = <<>>
    /\ \E u \in Users, c \in Chats, f \in BOOLEAN,
          a \in {x \in TimeArgs : strip(x) = x /\ parse_hhmm(x).ok} :
          /\ lang_or_prompt(user_prefs, u) # NULL
          /\ inp' = [user |-> u, chat |-> c, time |-> a, fails |-> f]
    /\ UNCHANGED <<user_prefs, jobs, daily, startup_errors, last, out>>

\* /settime <t> runs on the state
ViaCommand ==
    /\ inp # <<>> /\ out.command = NotRun
    /\ out' = [out EXCEPT !.command =
                  settime(user_prefs, jobs, inp.user, inp.chat, <<inp.time>>, inp.fails)]
    /\ UNCHANGED <<user_prefs, jobs, daily, startup_errors, last, inp>>

\* PRESET:<t> runs on the same state
ViaButton ==
    /\ inp # <<>> /\ out.button = NotRun
    /\ out' = [out EXCEPT !.button =
                  on_button(user_prefs, jobs, inp.user, inp.chat,
                            [tag |-> "PRESET:", arg |-> inp.time], inp.fails)]
    /\ UNCHANGED <<user_prefs, jobs, daily, startup_errors, last, inp>>

NextEquiv ==
    \/ \E u \in Users : EquivBefore(u)
    \/ EquivRequest
    \/ ViaCommand
    \/ ViaButton

SpecEquiv == EquivInit /\ [][NextEquiv]_vars

\* C36: for a user with a language on file and a valid time t, /settime t
\* and PRESET:t leave the same store and the same job queue; unless run_daily
\* raised, the user's row holds t, is enabled and carries the chat of the
\* request, and the user has the one job of t.
C36_PresetEqualsSetTime ==
    (inp # <<>> /\ out.command # NotRun /\ out.button # NotRun) =>
        /\ out.command.prefs = out.button.prefs
        /\ out.command.jobs = out.button.jobs
        /\ ~inp.fails =>
              LET row == get_user(out.button.prefs, inp.user) IN
              /\ row.time_hhmm = inp.time
              /\ row.enabled
              /\ row.chat_id = inp.chat
              /\ out.button.jobs[job_name(inp.user)] = <<JobAt(inp.user, inp.time)>>

\* C36 witness: a user with the job of 08:15, known in chat 1, asked for
\* 21:00 from chat 2; both ways have run.
C36_Witness ==
    /\ inp # <<>> /\ out.command # NotRun /\ out.button # NotRun
    /\ ~inp.fails /\ inp.time = t2100 /\ inp.chat = 2
    /\ get_user(user_prefs, inp.user).chat_id = 1
    /\ JobsOf(inp.user) = <<JobAt(inp.user, t0815)>>

(***************************************************************************)
(* One DataLoader with its two latest get_data calls remembered            *)
(***************************************************************************)
\* no call
NoCall == [called |-> FALSE, at |-> 0, value |-> None, read |-> FALSE,
           failed |-> FALSE, stamp |-> 0]

\* inp: the file and time.time(); out: the loader, its latest call (when,
\* what it returned, whether it read the file, whether the read failed,
\* _last_loaded after it) and the call before that one
ReloadInit ==
    /\ inp \in [file : LoaderFiles, clock : {0}]
    /\ out = [loader |-> NewLoader, prior |-> NoCall, latest |-> NoCall]
    /\ user_prefs = {}
    /\ jobs = NoJobs
    /\ daily = [u \in Users |-> Idle]
    /\ startup_errors = {}
    /\ last = [user |-> 0, reply |-> "(none)"]

\* data_loader.get_data() is called
ReloadGet ==
    LET r == get_data(out.loader, inp.clock, inp.file) IN
    /\ out' = [loader |-> r.self,
               prior |-> out.latest,
               latest |-> [called |-> TRUE, at |-> inp.clock, value |-> r.value,
                           read |-> r.read, failed |-> r.failed,
                           stamp |-> r.self.last_loaded]]
    /\ UNCHANGED <<user_prefs, jobs, daily, startup_errors, last, inp>>

NextReload == Advance \/ Replace \/ ReloadGet

SpecReload == ReloadInit /\ [][NextReload]_vars

\* C37: a failed reload leaves _last_loaded where it was, so the call that
\* follows a failed one reads the file again, however soon it comes; a read
\* that succeeds puts its value in the cache and stamps _last_loaded with the
\* time of the call, and a call at most 300 seconds after it does not read.
C37_FailedReloadIsRetried ==
    /\ (out.prior.called /\ out.prior.failed) =>
          /\ out.latest.read
          /\ out.latest.failed => out.latest.stamp = out.prior.stamp
    /\ (out.latest.called /\ out.latest.read /\ ~out.latest.failed) =>
          /\ out.loader.cache = out.latest.value
          /\ out.loader.last_loaded = out.latest.at
    /\ (out.prior.called /\ out.prior.read /\ ~out.prior.failed
            /\ out.latest.at - out.prior.at <= cache_duration) =>
          ~out.latest.read /\ out.latest.value = out.prior.value

\* C37 witness: Day1 was cached; later a reload failed, and the very next
\* call, less than 300 seconds after the failed one, read the file and cached
\* Day2 with the time of that call.
C37_Witness ==
    /\ out.prior.called /\ out.prior.failed /\ out.prior.value = Day1
    /\ out.latest.read /\ ~out.latest.failed
    /\ out.latest.at - out.prior.at < cache_duration
    /\ out.latest.at > out.prior.at
    /\ out.loader = [cache |-> Day2, last_loaded |-> out.latest.at]

(***************************************************************************)
(* The time left to the next prayer, as both generations compute it        *)
(***************************************************************************)
\* Moscow clocks: those of the formatter check and two at the ends of the day
CountdownClocks ==
    Clocks \cup [hhmm : {<<"0", "0", ":", "0", "0">>, <<"2", "1", ":", "2", "9">>},
                 second : {0, 59}]

\* inp: the prayers of a payload dated today and the Moscow clock; out: the
\* prayer selected and the time left shown with it
CountdownInit ==
    /\ inp \in [prayers : {EntriesOf(q) : q \in KeyOrders}, clock : CountdownClocks]
    /\ out = [done |-> FALSE]
    /\ user_prefs = {}
    /\ jobs = NoJobs
    /\ daily = [u \in Users |-> Idle]
    /\ startup_errors = {}
    /\ last = [user |-> 0, reply |-> "(none)"]

\* _format_prayer_message of bot.py renders the payload
CountdownBot ==
    /\ ~out.done
    /\ LET key == next_prayer_key(inp.prayers, "2026-03-01", "2026-03-01", inp.clock.hhmm) IN
       out' = [done |-> TRUE, by |-> "bot", key |-> key,
               left |-> IF key = NoKey THEN NoTimeLeft
                        ELSE time_left(ValueOf(inp.prayers, key), inp.clock)]
    /\ UNCHANGED <<user_prefs, jobs, daily, startup_errors, last, inp>>

\* _get_next_prayer_countdown of iii.py is called for the payload
CountdownIii ==
    /\ ~out.done
    /\ LET key == countdown_iii(inp.prayers, inp.clock).key IN
       out' = [done |-> TRUE, by |-> "iii", key |-> key,
               left |-> IF key = NoKey THEN NoTimeLeft
                        ELSE time_left_iii(ValueOf(inp.prayers, key), inp.clock)]
    /\ UNCHANGED <<user_prefs, jobs, daily, startup_errors, last, inp>>

NextCountdown == CountdownBot \/ CountdownIii

SpecCountdown == CountdownInit /\ [][NextCountdown]_vars

\* C38, as claimed: when a next prayer is selected (all times being
\* well-formed HH:MM), the time left is shown; it is the time from the
\* Moscow clock to the prayer's time on the same day, at least 0 and less
\* than 24 hours, as whole hours and the whole minutes of the rest.
C38_TimeLeftIsFlooredDifference ==
    (out.done /\ out.key # NoKey) =>
        LET remaining_s == 60 * MinuteOfDay(ValueOf(inp.prayers, out.key))
                              - (60 * MinuteOfDay(inp.clock.hhmm) + inp.clock.second)
        IN  /\ ~out.left.raised
            /\ out.left.shown
            /\ remaining_s >= 0 /\ remaining_s < 86400
            /\ out.left.hours = remaining_s \div 3600
            /\ out.left.minutes = (remaining_s % 3600) \div 60

====
